---- MODULE Spec2Model ----
(***************************************************************************)
(* Model of services/nlp.js: the token estimator, the chunk splitter, the  *)
(* call gateway (safeGroqCall), the chunk orchestrator (parseIntent,       *)
(* parseLongInput), intent fusion (mergeIntents) and the regex fallback    *)
(* classifier.                                                             *)
(*                                                                         *)
(* Strings are run-length encoded: a string is a sequence of runs <<c, n>> *)
(* (character c repeated n >= 1 times), adjacent runs holding different    *)
(* characters.  The same string operators therefore serve the few-         *)
(* character texts of the splitter's specification and the texts of tens   *)
(* of thousands of characters that the 6000-token ceiling needs.           *)
(***************************************************************************)
EXTENDS Integers, Sequences, FiniteSets, TLC

(***************************************************************************)
(* Bounds of the model.                                                    *)
(***************************************************************************)
\* longest text (in characters) handed to the splitter in SplitSpec
MaxLen == 9
\* largest per-chunk ceiling handed to the splitter in SplitSpec
MaxCeiling == 2

(***************************************************************************)
(* Strings.                                                                *)
(***************************************************************************)
NL == "\n"

\* the characters the splitter's texts are drawn from: a letter, a sentence
\* terminator and a line break (which is also whitespace)
Alphabet == {"a", ".", NL}

RECURSIVE StrLen(_)
StrLen(s) == IF s = <<>> THEN 0 ELSE s[1][2] + StrLen(Tail(s))

\* a + b of JavaScript strings
Concat(s, t) ==
  IF s = <<>> THEN t
  ELSE IF t = <<>> THEN s
  ELSE IF s[Len(s)][1] = t[1][1]
       THEN SubSeq(s, 1, Len(s) - 1) \o << <<t[1][1], s[Len(s)][2] + t[1][2]>> >> \o Tail(t)
       ELSE s \o t

\* a string of n copies of c
Rep(c, n) == IF n <= 0 THEN <<>> ELSE << <<c, n>> >>

\* the run-length encoding of a sequence of characters
RECURSIVE FromChars(_)
FromChars(cs) == IF cs = <<>> THEN <<>> ELSE Concat(Rep(cs[1], 1), FromChars(Tail(cs)))

IsSpace(c) == c \in {" ", NL}
IsTerminator(c) == c \in {".", "!", "?"}

RECURSIVE TrimLeft(_)
TrimLeft(s) == IF s # <<>> /\ IsSpace(s[1][1]) THEN TrimLeft(Tail(s)) ELSE s

RECURSIVE TrimRight(_)
TrimRight(s) ==
  IF s # <<>> /\ IsSpace(s[Len(s)][1]) THEN TrimRight(SubSeq(s, 1, Len(s) - 1)) ELSE s

\* String.prototype.trim
Trim(s) == TrimRight(TrimLeft(s))

\* the truthiness of s.trim()
NonBlank(s) == Trim(s) # <<>>

RECURSIVE Take(_, _)
Take(s, k) ==
  IF k <= 0 \/ s = <<>> THEN <<>>
  ELSE IF s[1][2] <= k THEN <<s[1]>> \o Take(Tail(s), k - s[1][2])
  ELSE << <<s[1][1], k>> >>

RECURSIVE Drop(_, _)
Drop(s, k) ==
  IF k <= 0 \/ s = <<>> THEN s
  ELSE IF s[1][2] <= k THEN Drop(Tail(s), k - s[1][2])
  ELSE << <<s[1][1], s[1][2] - k>> >> \o Tail(s)

\* String.prototype.substring(from, to), 0 <= from <= to
Substring(s, from, to) == Take(Drop(s, from), to - from)

\* the string with its whitespace characters removed
RECURSIVE NonSpace(_)
NonSpace(s) ==
  IF s = <<>> THEN <<>>
  ELSE IF IsSpace(s[1][1]) THEN NonSpace(Tail(s))
  ELSE Concat(<<s[1]>>, NonSpace(Tail(s)))

\* the concatenation of a sequence of strings
RECURSIVE Join(_)
Join(ss) == IF ss = <<>> THEN <<>> ELSE Concat(ss[1], Join(Tail(ss)))

EmptyLines(k) == [i \in 1..k |-> <<>>]

\* String.prototype.split('\n'), cur being the line read so far
RECURSIVE SplitLinesFrom(_, _)
SplitLinesFrom(s, cur) ==
  IF s = <<>> THEN <<cur>>
  ELSE IF s[1][1] = NL
       THEN <<cur>> \o EmptyLines(s[1][2] - 1) \o SplitLinesFrom(Tail(s), <<>>)
       ELSE SplitLinesFrom(Tail(s), cur \o <<s[1]>>)

SplitLines(s) == SplitLinesFrom(s, <<>>)

\* text.match(/[^.!?]+[.!?]+/g): body holds the non-terminators of the match
\* in progress, terms the terminators that follow them
RECURSIVE MatchSentencesFrom(_, _, _)
MatchSentencesFrom(s, body, terms) ==
  IF s = <<>>
  THEN IF body # <<>> /\ terms # <<>> THEN <<body \o terms>> ELSE <<>>
  ELSE IF IsTerminator(s[1][1])
       THEN IF body = <<>>
            THEN MatchSentencesFrom(Tail(s), <<>>, <<>>)
            ELSE MatchSentencesFrom(Tail(s), body, terms \o <<s[1]>>)
       ELSE IF terms # <<>>
            THEN <<body \o terms>> \o MatchSentencesFrom(Tail(s), <<s[1]>>, <<>>)
            ELSE MatchSentencesFrom(Tail(s), body \o <<s[1]>>, <<>>)

MatchSentences(s) == MatchSentencesFrom(s, <<>>, <<>>)

(***************************************************************************)
(* Token estimator.                                                        *)
(***************************************************************************)
CharsPerToken == 4

\* Math.floor(n / 4)
TokensOfLengthFloor(n) == n \div CharsPerToken

\* Math.ceil(n / 4)
TokensOfLength(n) == (n + CharsPerToken - 1) \div CharsPerToken

estimateTokens(text) == IF text = <<>> THEN 0 ELSE TokensOfLength(StrLen(text))

(***************************************************************************)
(* Chunk splitter.                                                         *)
(***************************************************************************)
\* the character tier: line cut every maxChars characters, each piece trimmed
RECURSIVE CharTier(_, _, _)
CharTier(line, maxChars, i) ==
  IF i >= StrLen(line) THEN <<>>
  ELSE <<Trim(Substring(line, i, i + maxChars))>> \o CharTier(line, maxChars, i + maxChars)

\* what follows lineChunk when a line is added to it
JoinLine(lineChunk, line) ==
  Concat(Concat(lineChunk, IF lineChunk # <<>> THEN Rep(NL, 1) ELSE <<>>), line)

\* the line tier: the loop over the lines of one oversized sentence
RECURSIVE LineTier(_, _, _, _, _)
LineTier(lines, k, maxTokensPerChunk, chunks, lineChunk) ==
  IF k > Len(lines) THEN [chunks |-> chunks, lineChunk |-> lineChunk]
  ELSE LET line == lines[k]
           lineTokens == estimateTokens(line)
           lineChunkTokens == estimateTokens(lineChunk)
           saved == IF NonBlank(lineChunk) THEN Append(chunks, Trim(lineChunk)) ELSE chunks
       IN IF lineChunkTokens + lineTokens > maxTokensPerChunk
          THEN IF lineTokens > maxTokensPerChunk
               THEN LineTier(lines, k + 1, maxTokensPerChunk,
                             saved \o CharTier(line, maxTokensPerChunk * CharsPerToken, 0), <<>>)
               ELSE LineTier(lines, k + 1, maxTokensPerChunk, saved, line)
          ELSE LineTier(lines, k + 1, maxTokensPerChunk, chunks, JoinLine(lineChunk, line))

\* the sentence tier: the loop over the sentences
RECURSIVE SentenceTier(_, _, _, _, _)
SentenceTier(sentences, k, maxTokensPerChunk, chunks, currentChunk) ==
  IF k > Len(sentences) THEN [chunks |-> chunks, currentChunk |-> currentChunk]
  ELSE LET sentence == sentences[k]
           sentenceTokens == estimateTokens(sentence)
           currentTokens == estimateTokens(currentChunk)
           saved == IF NonBlank(currentChunk) THEN Append(chunks, Trim(currentChunk)) ELSE chunks
           kept == IF NonBlank(currentChunk) THEN <<>> ELSE currentChunk
           byLine == LineTier(SplitLines(sentence), 1, maxTokensPerChunk, saved, <<>>)
       IN IF currentTokens + sentenceTokens > maxTokensPerChunk
          THEN IF sentenceTokens > maxTokensPerChunk
               THEN SentenceTier(sentences, k + 1, maxTokensPerChunk, byLine.chunks,
                                 IF NonBlank(byLine.lineChunk) THEN byLine.lineChunk ELSE kept)
               ELSE SentenceTier(sentences, k + 1, maxTokensPerChunk, saved, sentence)
          ELSE SentenceTier(sentences, k + 1, maxTokensPerChunk, chunks,
                            Concat(currentChunk, sentence))

\* splitTextIntoChunks returning a text within the ceiling trimmed
splitTrimmingShort(text, maxTokensPerChunk) ==
  IF text = <<>> \/ estimateTokens(text) <= maxTokensPerChunk THEN <<Trim(text)>>
  ELSE LET matched == MatchSentences(text)
           sentences == IF matched = <<>> THEN <<text>> ELSE matched
           r == SentenceTier(sentences, 1, maxTokensPerChunk, <<>>, <<>>)
           chunks == IF NonBlank(r.currentChunk)
                     THEN Append(r.chunks, Trim(r.currentChunk)) ELSE r.chunks
       IN IF Len(chunks) > 0 THEN chunks ELSE <<text>>

splitTextIntoChunks(text, maxTokensPerChunk) ==
  IF text = <<>> \/ estimateTokens(text) <= maxTokensPerChunk THEN <<text>>
  ELSE LET matched == MatchSentences(text)
           sentences == IF matched = <<>> THEN <<text>> ELSE matched
           r == SentenceTier(sentences, 1, maxTokensPerChunk, <<>>, <<>>)
           chunks == IF NonBlank(r.currentChunk)
                     THEN Append(r.chunks, Trim(r.currentChunk)) ELSE r.chunks
       IN IF Len(chunks) > 0 THEN chunks ELSE <<text>>

(***************************************************************************)
(* Repair of truncated JSON.                                               *)
(***************************************************************************)
\* (s.match(/c/g) || []).length
RECURSIVE Count(_, _)
Count(s, c) ==
  IF s = <<>> THEN 0 ELSE (IF s[1][1] = c THEN s[1][2] ELSE 0) + Count(Tail(s), c)

\* s.replace(/,(\s*[}\]])/g, '$1'): of the commas of a run, the last is removed
\* when whitespace and then a closing brace or bracket follow it
RECURSIVE StripTrailingCommas(_)
StripTrailingCommas(s) ==
  IF s = <<>> THEN <<>>
  ELSE LET after == TrimLeft(Tail(s))
           closes == after # <<>> /\ after[1][1] \in {"}", "]"}
       IN Concat(IF s[1][1] = "," /\ closes THEN Rep(",", s[1][2] - 1) ELSE <<s[1]>>,
                 StripTrailingCommas(Tail(s)))

\* the loops of lines 133-140: a closer appended for each unmatched opener
Closers(opened, closed, c) == Rep(c, opened - closed)

\* repairTruncatedJson appending one closer of a kind at most
repairClosingOnce(jsonStr) ==
  LET repaired == Trim(jsonStr)
      brackets == IF Count(repaired, "[") > Count(repaired, "]") THEN Rep("]", 1) ELSE <<>>
      braces == IF Count(repaired, "{") > Count(repaired, "}") THEN Rep("}", 1) ELSE <<>>
  IN StripTrailingCommas(Concat(Concat(repaired, brackets), braces))

repairTruncatedJson(jsonStr) ==
  LET repaired == Trim(jsonStr)
      brackets == Closers(Count(repaired, "["), Count(repaired, "]"), "]")
      braces == Closers(Count(repaired, "{"), Count(repaired, "}"), "}")
  IN StripTrailingCommas(Concat(Concat(repaired, brackets), braces))

(***************************************************************************)
(* Intents.  Every intent is a record of the same shape; Absent stands for *)
(* a property the JavaScript object does not have, Null for null.          *)
(***************************************************************************)
Absent == "<absent>"
Null == "<null>"

\* the truthiness of a string-valued property
Truthy(v) == v \notin {Absent, Null, ""}

\* the closed enumeration of the prompts' action whitelist
ActionWhitelist ==
  {"create_task", "list_tasks", "update_priority", "complete_task", "delete_task",
   "create_note", "list_notes", "focus", "show_urgent", "math", "small_talk", "help",
   "unknown"}

\* entities.numbers, whose value is an array, is the field numbers of an intent
EntityKeys == {"task_ref", "person", "priority", "sortBy", "operation"}

NoEntities == [k \in EntityKeys |-> Absent]

EmptyIntent ==
  [action |-> Absent, mode |-> Absent, tasks |-> <<>>, notes |-> <<>>,
   entities |-> NoEntities, query |-> <<>>, reply_hint |-> Absent, fallback |-> FALSE,
   message |-> Absent, partialProcessing |-> FALSE, chunked |-> FALSE, chunkCount |-> 0,
   warning |-> 0, queue |-> <<>>, numbers |-> <<>>]

Task(title) == [title |-> title, description |-> "", priority |-> "medium"]

Note(title, body) == [title |-> title, body |-> body, tags |-> <<>>]

(***************************************************************************)
(* Error messages, and error.message.includes('token') for each of them.   *)
(* The test is case-sensitive.                                             *)
(***************************************************************************)
MsgPreflight == "Input tokens (n) exceed MAX_INPUT_TOKENS_PER_CALL (6000). Use chunking instead."
MsgTokenLimit == "Token limit exceeded. Try with smaller input."
MsgOracleBudget == "Request too large: tokens per minute limit reached"
MsgOracleDown == "Connection error."
MsgOracleBadBody == "Unexpected token < in response body"
MsgJsonToken == "Unexpected token } in JSON at position 5"
MsgJsonEnd == "Unexpected end of JSON input"
MsgLongInput == "Your message is very long, so I'm processing it in parts. I'll handle as much as I can in this pass."
MsgEmptyInput == "Empty input"
MsgNoIntents == "No intents parsed"

IncludesToken(msg) ==
  msg \in {MsgPreflight, MsgOracleBudget, MsgOracleBadBody, MsgJsonToken}

(***************************************************************************)
(* Fallback classifier.  A text is matched in lower case: the patterns of  *)
(* the keyword rules are case-insensitive, and the texts hold no capital.  *)
(***************************************************************************)
FallbackTaskCap == 50

Whitespace == {" ", NL}
DigitChars == {"0", "1", "2", "3", "4", "5", "6", "7", "8", "9"}
Letters ==
  {"a", "b", "c", "d", "e", "f", "g", "h", "i", "j", "k", "l", "m", "n", "o", "p", "q",
   "r", "s", "t", "u", "v", "w", "x", "y", "z"}
Operators == {"+", "-", "*", "/"}

\* \w, which decides where \b holds
IsWordChar(c) == c \in Letters \cup DigitChars \cup {"_"}

\* the character at position i (from 0), "" outside the string
CharAt(s, i) ==
  LET rest == Drop(s, i) IN IF i < 0 \/ rest = <<>> THEN "" ELSE rest[1][1]

\* the number of leading characters of s that are in C (in = TRUE) or that are
\* not in C (in = FALSE)
RECURSIVE LeadLen(_, _, _)
LeadLen(s, C, in) ==
  IF s = <<>> \/ ((s[1][1] \in C) # in) THEN 0 ELSE s[1][2] + LeadLen(Tail(s), C, in)

\* where a greedy character class (in = TRUE: [C]*, in = FALSE: [^C]*)
\* starting at position i ends
Skip(s, i, C, in) == i + LeadLen(Drop(s, i), C, in)

\* the keywords of the patterns; each holds two different characters at least
Keywords ==
  [ Complete |-> FromChars(<<"c", "o", "m", "p", "l", "e", "t", "e">>),
    Done |-> FromChars(<<"d", "o", "n", "e">>),
    Finish |-> FromChars(<<"f", "i", "n", "i", "s", "h">>),
    Mark |-> FromChars(<<"m", "a", "r", "k">>),
    Delete |-> FromChars(<<"d", "e", "l", "e", "t", "e">>),
    Remove |-> FromChars(<<"r", "e", "m", "o", "v", "e">>),
    Change |-> FromChars(<<"c", "h", "a", "n", "g", "e">>),
    Priority |-> FromChars(<<"p", "r", "i", "o", "r", "i", "t", "y">>),
    Make |-> FromChars(<<"m", "a", "k", "e">>),
    Urgent |-> FromChars(<<"u", "r", "g", "e", "n", "t">>),
    High |-> FromChars(<<"h", "i", "g", "h">>),
    Low |-> FromChars(<<"l", "o", "w">>),
    Update |-> FromChars(<<"u", "p", "d", "a", "t", "e">>),
    Show |-> FromChars(<<"s", "h", "o", "w">>),
    List |-> FromChars(<<"l", "i", "s", "t">>),
    Display |-> FromChars(<<"d", "i", "s", "p", "l", "a", "y">>),
    Tasks |-> FromChars(<<"t", "a", "s", "k", "s">>),
    Sort |-> FromChars(<<"s", "o", "r", "t">>),
    Arrange |-> FromChars(<<"a", "r", "r", "a", "n", "g", "e">>),
    NoteColon |-> FromChars(<<"n", "o", "t", "e", ":">>),
    Remember |-> FromChars(<<"r", "e", "m", "e", "m", "b", "e", "r">>),
    SaveThis |-> FromChars(<<"s", "a", "v", "e", " ", "t", "h", "i", "s">>),
    Meeting |-> FromChars(<<"m", "e", "e", "t", "i", "n", "g">>),
    Focus |-> FromChars(<<"f", "o", "c", "u", "s">>),
    Pomodoro |-> FromChars(<<"p", "o", "m", "o", "d", "o", "r", "o">>),
    What |-> FromChars(<<"w", "h", "a", "t">>),
    ShowUrgent |-> FromChars(<<"s", "h", "o", "w", " ", "u", "r", "g", "e", "n", "t">>),
    Hi |-> FromChars(<<"h", "i">>),
    Hello |-> FromChars(<<"h", "e", "l", "l", "o">>),
    Hey |-> FromChars(<<"h", "e", "y">>),
    WhatTime |-> FromChars(<<"w", "h", "a", "t", " ", "t", "i", "m", "e">>),
    WhatDay |-> FromChars(<<"w", "h", "a", "t", " ", "d", "a", "y">>),
    Help |-> FromChars(<<"h", "e", "l", "p">>)]

\* the keyword is in s at position p
HasAt(s, kw, p) == p >= 0 /\ Take(Drop(s, p), StrLen(kw)) = kw

\* the position at which run r of s starts
RunStart(s, r) == StrLen(SubSeq(s, 1, r - 1))

\* the positions at which the keyword is in s: its first run ends where a run
\* of s ends
Occurrences(s, kw) ==
  {p \in {RunStart(s, r) + s[r][2] - kw[1][2] :
            r \in {q \in 1..Len(s) : s[q][1] = kw[1][1] /\ s[q][2] >= kw[1][2]}} :
     HasAt(s, kw, p)}

\* /kw/.test(text)
Contains(s, kw) == Occurrences(s, kw) # {}

\* /^kw/.test(text)
StartsWith(s, kw) == HasAt(s, kw, 0)

\* /first.*second/.test(text): the dot matches no line break
Then(s, first, second) ==
  \E p \in Occurrences(s, first), q \in Occurrences(s, second) :
    /\ p + StrLen(first) <= q
    /\ Count(Substring(s, p + StrLen(first), q), NL) = 0

\* /\bkw\b/.test(text)
Whole(s, kw) ==
  \E p \in Occurrences(s, kw) :
    ~IsWordChar(CharAt(s, p - 1)) /\ ~IsWordChar(CharAt(s, p + StrLen(kw)))

Least(S) == CHOOSE m \in S : \A x \in S : m <= x

NoGroup == [g |-> -1, e |-> -1]

\* \s+(.+) (least = 1) or \s*([^\n]+) (least = 0) matched at position from: g
\* is where the group starts and e where it ends, NoGroup when there is no
\* match.  The whitespace is taken greedily up to the first other character;
\* when the text ends in whitespace it is given back as far as the last
\* character that is no line break, which is then the group.
RestOfLine(s, from, least) ==
  LET n == StrLen(s)
      w == Skip(s, from, Whitespace, TRUE)
      last == IF s # <<>> /\ s[Len(s)][1] = NL THEN n - s[Len(s)][2] - 1 ELSE n - 1
  IN IF w < n
     THEN IF w - from >= least THEN [g |-> w, e |-> Skip(s, w, {NL}, FALSE)] ELSE NoGroup
     ELSE IF last >= from + least THEN [g |-> last, e |-> last + 1] ELSE NoGroup

\* text.match(/bare|...|kw\s+(.+)/i) of lines 596 and 603: the leftmost match
\* is of one of the bare alternatives, which leaves match[1] undefined, or of
\* the last alternative, which sets it
RefMatch(s, bare, kw) ==
  LET bareAt == UNION {Occurrences(s, b) : b \in bare}
      kwAt == {p \in Occurrences(s, kw) : RestOfLine(s, p + StrLen(kw), 1) # NoGroup}
      at == Least(bareAt \cup kwAt)
      rest == RestOfLine(s, at + StrLen(kw), 1)
  IN IF bareAt \cup kwAt = {} THEN [matched |-> FALSE, grouped |-> FALSE, ref |-> <<>>]
     ELSE IF at \in bareAt THEN [matched |-> TRUE, grouped |-> FALSE, ref |-> <<>>]
     ELSE [matched |-> TRUE, grouped |-> TRUE, ref |-> Substring(s, rest.g, rest.e)]

\* the string of n copies of the character c
RECURSIVE RepStr(_, _)
RepStr(c, n) ==
  IF n <= 0 THEN "" ELSE IF n = 1 THEN c
  ELSE LET half == RepStr(c, n \div 2) IN (half \o half) \o (IF n % 2 = 1 THEN c ELSE "")

\* the value of an entity that is a piece of the text
RECURSIVE EntityValue(_)
EntityValue(s) == IF s = <<>> THEN "" ELSE RepStr(s[1][1], s[1][2]) \o EntityValue(Tail(s))

\* the tests of the keyword rules, lines 593-655
IsCompletion(s) ==
  Contains(s, Keywords.Complete) \/ Contains(s, Keywords.Done) \/ Contains(s, Keywords.Finish) \/ Then(s, Keywords.Mark, Keywords.Done)
IsDeletion(s) == Contains(s, Keywords.Delete) \/ Contains(s, Keywords.Remove)
IsPriorityChange(s) ==
  \/ Then(s, Keywords.Change, Keywords.Priority) \/ Then(s, Keywords.Make, Keywords.Urgent) \/ Then(s, Keywords.Make, Keywords.High)
  \/ Then(s, Keywords.Make, Keywords.Low) \/ Then(s, Keywords.Update, Keywords.Priority)
IsListing(s) == Contains(s, Keywords.Show) \/ Contains(s, Keywords.List) \/ Then(s, Keywords.Display, Keywords.Tasks)
IsSorting(s) == Contains(s, Keywords.Sort) \/ Then(s, Keywords.Arrange, Keywords.Priority)
IsNote(s) ==
  \/ Contains(s, Keywords.NoteColon)
  \/ Contains(s, Keywords.Remember) \/ Contains(s, Keywords.SaveThis) \/ Contains(s, Keywords.Meeting)
IsFocus(s) == Contains(s, Keywords.Focus) \/ Contains(s, Keywords.Pomodoro)
IsUrgentQuery(s) == Then(s, Keywords.What, Keywords.Urgent) \/ Contains(s, Keywords.ShowUrgent)
IsGreeting(s) ==
  \E kw \in {Keywords.Hi, Keywords.Hello, Keywords.Hey, Keywords.WhatTime, Keywords.WhatDay, Keywords.Help} : StartsWith(s, kw)

\* /^\s*\d+\s*[\+\-\*\/]\s*\d+/ and the groups of the match of line 642
MathMatch(s) ==
  LET first == Skip(s, 0, Whitespace, TRUE)
      firstEnd == Skip(s, first, DigitChars, TRUE)
      opAt == Skip(s, firstEnd, Whitespace, TRUE)
      second == Skip(s, opAt + 1, Whitespace, TRUE)
      secondEnd == Skip(s, second, DigitChars, TRUE)
  IN [ok |-> firstEnd > first /\ CharAt(s, opAt) \in Operators /\ secondEnd > second,
      left |-> Substring(s, first, firstEnd), op |-> CharAt(s, opAt),
      right |-> Substring(s, second, secondEnd)]

DigitValue(c) == CHOOSE v \in 0..9 : <<"0", "1", "2", "3", "4", "5", "6", "7", "8", "9">>[v + 1] = c

RECURSIVE Pow10(_)
Pow10(n) == IF n = 0 THEN 1 ELSE 10 * Pow10(n - 1)

\* parseInt of a string of digits, acc being the value of the digits read
RECURSIVE ParseIntFrom(_, _)
ParseIntFrom(s, acc) ==
  IF s = <<>> THEN acc
  ELSE ParseIntFrom(Tail(s),
         acc * Pow10(s[1][2]) + DigitValue(s[1][1]) * ((Pow10(s[1][2]) - 1) \div 9))

ParseInt(s) == ParseIntFrom(s, 0)

OperationName(op) ==
  CASE op = "+" -> "addition" [] op = "-" -> "subtraction"
    [] op = "*" -> "multiplication" [] op = "/" -> "division"

\* text.match(/\d+[\)\.]\s*([^\n]+)/g) from position pos on, each match
\* turned into its title by line 669
RECURSIVE MarkerTitles(_, _)
MarkerTitles(s, pos) ==
  LET digits == Skip(s, pos, DigitChars, FALSE)
      mark == Skip(s, digits, DigitChars, TRUE)
      rest == RestOfLine(s, mark + 1, 0)
  IN IF digits >= StrLen(s) THEN <<>>
     ELSE IF CharAt(s, mark) \in {")", "."} /\ rest # NoGroup
     THEN <<Trim(Substring(s, IF CharAt(s, mark) = ")" THEN mark + 1 ELSE digits, rest.e))>>
          \o MarkerTitles(s, rest.e)
     ELSE MarkerTitles(s, mark)

\* lines.filter(line => line.trim().length > 0)
RECURSIVE NonBlankLines(_)
NonBlankLines(lines) ==
  IF lines = <<>> THEN <<>>
  ELSE IF NonBlank(lines[1]) THEN <<lines[1]>> \o NonBlankLines(Tail(lines))
  ELSE NonBlankLines(Tail(lines))

\* the message of the TypeError of match[1].trim() with match[1] undefined
MsgTrimOfUndefined == "Cannot read properties of undefined (reading 'trim')"

\* regexFallbackParser throws: lines 597 and 604 call trim on match[1], which
\* is undefined when the match is of a bare alternative
FallbackThrows(text) ==
  IF IsCompletion(text)
  THEN LET m == RefMatch(text, {Keywords.Complete, Keywords.Done}, Keywords.Finish) IN m.matched /\ ~m.grouped
  ELSE IF IsDeletion(text)
  THEN LET m == RefMatch(text, {Keywords.Delete}, Keywords.Remove) IN m.matched /\ ~m.grouped
  ELSE FALSE

\* the intent with task_ref set from the match, when there is one
WithRef(intent, m) ==
  IF m.matched
  THEN [intent EXCEPT !.entities["task_ref"] = EntityValue(Trim(m.ref))]
  ELSE intent

\* the intent regexFallbackParser returns when it does not throw
regexFallbackParser(text) ==
  LET intent == [EmptyIntent EXCEPT !.mode = "auto", !.action = "unknown", !.query = text,
                                    !.fallback = TRUE]
      math == MathMatch(text)
      titles == MarkerTitles(text, 0)
      lines == NonBlankLines(SplitLines(text))
      kept == SubSeq(lines, 1, IF Len(lines) < FallbackTaskCap THEN Len(lines) ELSE FallbackTaskCap)
  IN IF IsCompletion(text)
     THEN WithRef([intent EXCEPT !.action = "complete_task"],
                  RefMatch(text, {Keywords.Complete, Keywords.Done}, Keywords.Finish))
     ELSE IF IsDeletion(text)
     THEN WithRef([intent EXCEPT !.action = "delete_task"],
                  RefMatch(text, {Keywords.Delete}, Keywords.Remove))
     ELSE IF IsPriorityChange(text)
     THEN [intent EXCEPT !.action = "update_priority",
                         !.entities["priority"] =
                            IF Whole(text, Keywords.High) \/ Whole(text, Keywords.Urgent) THEN "high"
                            ELSE IF Whole(text, Keywords.Low) THEN "low" ELSE "medium"]
     ELSE IF IsListing(text)
     THEN [intent EXCEPT !.action = "list_tasks",
                         !.entities["sortBy"] = IF IsSorting(text) THEN "priority" ELSE @]
     ELSE IF IsNote(text)
     THEN [intent EXCEPT !.action = "create_note",
                         !.notes = <<Note(Substring(text, 0, 50), text)>>]
     ELSE IF IsFocus(text) THEN [intent EXCEPT !.action = "focus"]
     ELSE IF IsUrgentQuery(text) THEN [intent EXCEPT !.action = "show_urgent"]
     ELSE IF math.ok
     THEN [intent EXCEPT !.action = "math",
                         !.numbers = <<ParseInt(math.left), ParseInt(math.right)>>,
                         !.entities["operation"] = OperationName(math.op)]
     ELSE IF IsGreeting(text)
     THEN [intent EXCEPT !.action = IF Contains(text, Keywords.Help) THEN "help" ELSE "small_talk"]
     ELSE [intent EXCEPT
             !.action = "create_task",
             !.tasks = IF titles # <<>>
                       THEN [n \in 1..Len(titles) |-> Task(titles[n])]
                       ELSE [n \in 1..Len(kept) |-> Task(Trim(kept[n]))]]

(***************************************************************************)
(* Intent fusion.                                                          *)
(***************************************************************************)
ImmediateTaskCap == 20

\* actionPriority[action] || 0
actionPriority(action) ==
  CASE action = "delete_task" -> 12
    [] action = "complete_task" -> 11
    [] action = "update_priority" -> 10
    [] action = "create_task" -> 9
    [] action = "create_note" -> 8
    [] action = "show_urgent" -> 7
    [] action = "focus" -> 6
    [] action = "list_tasks" -> 5
    [] action = "list_notes" -> 4
    [] action = "math" -> 3
    [] action = "help" -> 2
    [] action = "small_talk" -> 1
    [] OTHER -> 0

\* the loop of lines 400-408: the first intent of the highest priority wins
RECURSIVE BestAction(_, _, _, _)
BestAction(intents, k, maxPriority, best) ==
  IF k > Len(intents) THEN best
  ELSE LET action == IF Truthy(intents[k].action) THEN intents[k].action ELSE "unknown"
           priority == actionPriority(action)
       IN IF priority > maxPriority
          THEN BestAction(intents, k + 1, priority, action)
          ELSE BestAction(intents, k + 1, maxPriority, best)

\* { ...merged.entities, ...intent.entities } and the sortBy rule of lines 452-454
MergeEntities(merged, entities) ==
  LET spread == [k \in EntityKeys |-> IF entities[k] # Absent THEN entities[k] ELSE merged[k]]
  IN IF Truthy(entities["sortBy"]) THEN [spread EXCEPT !["sortBy"] = entities["sortBy"]]
     ELSE spread

\* the merge loop putting each intent's tasks and notes before those merged
\* so far
RECURSIVE MergeLoopNewestFirst(_, _, _)
MergeLoopNewestFirst(intents, k, merged) ==
  IF k > Len(intents) THEN merged
  ELSE LET intent == intents[k]
       IN MergeLoopNewestFirst(intents, k + 1,
            [merged EXCEPT
               !.tasks = intent.tasks \o @,
               !.notes = intent.notes \o @,
               !.query = IF intent.query # <<>>
                         THEN Concat(Concat(@, IF @ # <<>> THEN Rep(" ", 1) ELSE <<>>), intent.query)
                         ELSE @,
               !.entities = MergeEntities(@, intent.entities),
               !.numbers = IF intent.numbers # <<>> THEN intent.numbers ELSE @,
               !.reply_hint = IF Truthy(intent.reply_hint) THEN intent.reply_hint ELSE @])

\* the loop of lines 425-455
RECURSIVE MergeLoop(_, _, _)
MergeLoop(intents, k, merged) ==
  IF k > Len(intents) THEN merged
  ELSE LET intent == intents[k]
       IN MergeLoop(intents, k + 1,
            [merged EXCEPT
               !.tasks = @ \o intent.tasks,
               !.notes = @ \o intent.notes,
               !.query = IF intent.query # <<>>
                         THEN Concat(Concat(@, IF @ # <<>> THEN Rep(" ", 1) ELSE <<>>), intent.query)
                         ELSE @,
               !.entities = MergeEntities(@, intent.entities),
               !.numbers = IF intent.numbers # <<>> THEN intent.numbers ELSE @,
               !.reply_hint = IF Truthy(intent.reply_hint) THEN intent.reply_hint ELSE @])

\* the fusion queueing from the cap on rather than beyond it
MergeManyCapInclusive(intents, primaryAction) ==
  LET action == IF Truthy(primaryAction) THEN primaryAction
                ELSE BestAction(intents, 1, -1, primaryAction)
      start == [EmptyIntent EXCEPT
                  !.mode = IF Truthy(intents[1].mode) THEN intents[1].mode ELSE "auto",
                  !.action = action, !.chunked = TRUE, !.chunkCount = Len(intents)]
      merged == MergeLoop(intents, 1, start)
  IN IF Len(merged.tasks) >= ImmediateTaskCap
     THEN [merged EXCEPT !.warning = Len(merged.tasks),
                         !.queue = SubSeq(merged.tasks, ImmediateTaskCap + 1, Len(merged.tasks)),
                         !.tasks = SubSeq(merged.tasks, 1, ImmediateTaskCap)]
     ELSE merged

\* lines 398-464: the fusion of two or more intents
MergeMany(intents, primaryAction) ==
  LET action == IF Truthy(primaryAction) THEN primaryAction
                ELSE BestAction(intents, 1, -1, primaryAction)
      start == [EmptyIntent EXCEPT
                  !.mode = IF Truthy(intents[1].mode) THEN intents[1].mode ELSE "auto",
                  !.action = action, !.chunked = TRUE, !.chunkCount = Len(intents)]
      merged == MergeLoop(intents, 1, start)
  IN IF Len(merged.tasks) > ImmediateTaskCap
     THEN [merged EXCEPT !.warning = Len(merged.tasks),
                         !.queue = SubSeq(merged.tasks, ImmediateTaskCap + 1, Len(merged.tasks)),
                         !.tasks = SubSeq(merged.tasks, 1, ImmediateTaskCap)]
     ELSE merged

\* mergeIntents without the shortcut of lines 377-379: one intent is fused too
mergeIntentsFusingOne(intents, primaryAction) ==
  IF Len(intents) = 0 THEN [EmptyIntent EXCEPT !.action = "unknown", !.message = MsgNoIntents]
  ELSE MergeMany(intents, primaryAction)

\* mergeIntents returning an empty object, without action or message, for no
\* intent
mergeIntentsSilentlyEmpty(intents, primaryAction) ==
  IF Len(intents) = 0 THEN EmptyIntent
  ELSE IF Len(intents) = 1 THEN intents[1]
  ELSE MergeMany(intents, primaryAction)

mergeIntents(intents, primaryAction) ==
  IF Len(intents) = 0 THEN [EmptyIntent EXCEPT !.action = "unknown", !.message = MsgNoIntents]
  ELSE IF Len(intents) = 1 THEN intents[1]
  ELSE MergeMany(intents, primaryAction)

(***************************************************************************)
(* Call gateway and orchestrator: constants and inputs.                    *)
(***************************************************************************)
MAX_INPUT_TOKENS_PER_CALL == 6000
\* the margin subtracted from the chunk ceiling
ChunkMargin == 100
\* the length of parseIntent's systemPrompt without modeContext
ParseIntentPromptLen == 1858
\* the length of parseLongInput's systemPrompt without modeContext
ParseLongPromptLen == 992
\* the length of "\nCurrent mode is ; prefer -related actions."
ModeContextFrameLen == 43

ModeNameLen(mode) == CASE mode = "tasks" -> 5 [] mode = "chat" -> 4 [] OTHER -> 0

\* the length of modeContext
ModeContextLen(mode) ==
  IF Truthy(mode) THEN ModeContextFrameLen + 2 * ModeNameLen(mode) ELSE 0

\* the number of decimal digits of n, 1 <= n < 1000
Digits(n) == IF n < 10 THEN 1 ELSE IF n < 100 THEN 2 ELSE 3

\* the length of "Part i of n of user request:\n\n"
AnnotationLen(i, n) == 28 + Digits(i) + Digits(n)

\* estimateTokens(systemPrompt + userPrompt), from the two lengths
PromptTokens(sysLen, userLen) == TokensOfLength(sysLen + userLen)

\* the texts a request is made with
TextEmpty == <<>>
TextBlank == Rep(" ", 3)
TextShort == Rep("a", 10)
\* over the ceiling with parseIntent's prompt, within it with parseLongInput's
TextMid == Rep("a", 22500)
\* two sentences, each a chunk
TextTwoSentences ==
  Concat(Concat(Rep("a", 15000), Rep(".", 1)), Concat(Rep("a", 15000), Rep(".", 1)))
\* one sentence of four lines, split by the line tier into two chunks of two lines
TextFourLines ==
  Concat(Concat(Rep("a", 8000), Rep(NL, 1)),
         Concat(Concat(Rep("a", 8000), Rep(NL, 1)),
                Concat(Concat(Rep("a", 8000), Rep(NL, 1)), Rep("a", 8000))))
\* two lines of spaces: nothing but whitespace, over the ceiling
TextWhitespace == Concat(Concat(Rep(" ", 20000), Rep(NL, 1)), Rep(" ", 20000))
\* as long as TextMid, and a deletion by its first word
TextDelete == Concat(Concat(Keywords.Delete, Rep(" ", 1)), Rep("a", 22500))

Texts ==
  {TextEmpty, TextBlank, TextShort, TextMid, TextTwoSentences, TextFourLines, TextWhitespace,
   TextDelete}

Modes == {Absent, "tasks"}

\* what the oracle's structured output parses to
OracleIntents ==
  { [EmptyIntent EXCEPT !.mode = "tasks", !.action = "create_task",
                        !.tasks = <<Task(Rep("t", 1)), Task(Rep("t", 2))>>,
                        !.query = Rep("q", 1)],
    [EmptyIntent EXCEPT !.mode = "tasks", !.action = "delete_task",
                        !.entities = [NoEntities EXCEPT !["task_ref"] = "2"]],
    [EmptyIntent EXCEPT !.action = "small_talk", !.reply_hint = "hello"],
    [EmptyIntent EXCEPT !.action = "create_task", !.query = Rep("q", 2),
                        !.tasks = [n \in 1..(ImmediateTaskCap + 1) |-> Task(Rep("u", n))]],
    [EmptyIntent EXCEPT !.action = "frobnicate"],
    EmptyIntent }

\* A reply of the oracle: err is the message of the error the call failed
\* with ("" when it returned), kind says what the failure was; parse says
\* whether the content parses ("ok"), parses once repaired ("repairable") or
\* does not parse even repaired ("garbage"); parseMsg is the message of
\* JSON.parse's error; intent is what the (repaired) content parses to.
Reply(err, kind, parse, parseMsg, intent) ==
  [err |-> err, kind |-> kind, parse |-> parse, parseMsg |-> parseMsg, intent |-> intent]

OracleErrors ==
  { Reply(MsgOracleBudget, "budget", "", "", EmptyIntent),
    Reply(MsgOracleDown, "transport", "", "", EmptyIntent),
    Reply(MsgOracleBadBody, "transport", "", "", EmptyIntent) }

OracleContents ==
  {Reply("", "", "ok", "", i) : i \in OracleIntents}
  \cup {Reply("", "", "repairable", m, i) :
          m \in {MsgJsonEnd}, i \in {x \in OracleIntents : x.action = "create_task"}}
  \cup {Reply("", "", "garbage", m, EmptyIntent) : m \in {MsgJsonToken, MsgJsonEnd}}

Replies == OracleErrors \cup OracleContents

(***************************************************************************)
(* State.                                                                  *)
(***************************************************************************)
VARIABLES
  entry,          \* the exported function the request entered by
  pc,             \* where the request is
  userText,       \* the request's text
  ctxMode,        \* context.mode
  chunks,         \* parseLongInput: chunks
  idx,            \* parseLongInput: i + 1
  smallerChunks,  \* parseLongInput: smallerChunks of the chunk being retried
  sidx,           \* the position of smallChunk in smallerChunks
  allIntents,     \* parseLongInput: allIntents
  primaryAction,  \* parseLongInput: primaryAction
  calls,          \* every safeGroqCall made for the request, in order
  result,         \* what the entered function returned or threw
  sText,          \* SplitSpec: the text handed to splitTextIntoChunks
  sCeiling,       \* SplitSpec: maxTokensPerChunk
  sChunks,        \* SplitSpec: the chunks returned
  sDone,          \* SplitSpec: the call has returned
  mIntents,       \* MergeSpec: the intents handed to mergeIntents
  mPrimary,       \* MergeSpec: primaryAction
  mResult,        \* MergeSpec: the intent returned
  mDone,          \* MergeSpec: the call has returned
  jText,          \* RepairSpec: the string handed to repairTruncatedJson
  jRepaired,      \* RepairSpec: the string returned
  jDone,          \* RepairSpec: the call has returned
  fText,          \* FallbackSpec: the text handed to regexFallbackParser
  fThrew,         \* FallbackSpec: the call threw
  fIntent,        \* FallbackSpec: the intent returned
  fDone,          \* FallbackSpec: the call has ended
  run,            \* SplitRunSpec: the locals of a running splitTextIntoChunks
  eInput,         \* EstimateSpec: the value handed to estimateTokens
  eTokens,        \* EstimateSpec: the number returned by the last call
  eCalls,         \* EstimateSpec: the calls made with the value
  qPending,       \* QueueSpec: users[userId].pendingActions as saved
  qTasks,         \* QueueSpec: users[userId].tasks as saved
  qReply          \* QueueSpec: the response of the last process-queue request

reqvars == <<entry, userText, ctxMode>>
loopvars == <<chunks, idx, smallerChunks, sidx, allIntents, primaryAction>>
mvars == <<mIntents, mPrimary, mResult, mDone>>
jvars == <<jText, jRepaired, jDone>>
fvars == <<fText, fThrew, fIntent, fDone>>
evars == <<eInput, eTokens, eCalls>>
qvars == <<qPending, qTasks, qReply>>
uvars == <<run, evars, qvars>>
\* the state of the calls of a single function, which a request leaves alone
svars == <<sText, sCeiling, sChunks, sDone, mvars, jvars, fvars, uvars>>
pvars == <<entry, pc, userText, ctxMode, chunks, idx, smallerChunks, sidx, allIntents,
           primaryAction, calls, result>>
vars == <<pvars, svars>>

NoResult == [kind |-> "none", intent |-> EmptyIntent, msg |-> ""]

\* no call of splitTextIntoChunks, mergeIntents, repairTruncatedJson or
\* regexFallbackParser by a user of the module
SplitIdle == sText = <<>> /\ sCeiling = 1 /\ sChunks = <<>> /\ sDone = FALSE
MergeIdle == mIntents = <<>> /\ mPrimary = Null /\ mResult = EmptyIntent /\ mDone = FALSE
RepairIdle == jText = <<>> /\ jRepaired = <<>> /\ jDone = FALSE
FallbackIdle == fText = <<>> /\ fThrew = FALSE /\ fIntent = EmptyIntent /\ fDone = FALSE

\* no splitTextIntoChunks running
NoRun ==
  [pc |-> "idle", text |-> <<>>, maxTokensPerChunk |-> 1, sentences |-> <<>>, s |-> 0,
   lines |-> <<>>, l |-> 0, i |-> 0, chunks |-> <<>>, currentChunk |-> <<>>,
   lineChunk |-> <<>>, returned |-> <<>>]
RunIdle == run = NoRun

\* A value of the language as estimateTokens sees it: its typeof, whether it
\* is truthy, its characters when it is a string, and its length property
\* (-1 when it has none).
JsString(s) == [typeof |-> "string", truthy |-> s # <<>>, text |-> s, length |-> StrLen(s)]
JsOther(typeof, truthy, length) ==
  [typeof |-> typeof, truthy |-> truthy, text |-> <<>>, length |-> length]

\* no call of estimateTokens by a user of the module
EstimateIdle == eInput = JsString(<<>>) /\ eTokens = 0 /\ eCalls = 0

\* no request to the process-queue endpoint
NoReply == [status |-> 0, success |-> FALSE, processed |-> -1, remaining |-> -1]
QueueIdle == qPending = <<>> /\ qTasks = <<>> /\ qReply = NoReply
UnitsIdle == RunIdle /\ EstimateIdle /\ QueueIdle

\* no request
RequestIdle ==
  /\ entry = "" /\ pc = "idle" /\ userText = <<>> /\ ctxMode = Absent
  /\ chunks = <<>> /\ idx = 0 /\ smallerChunks = <<>> /\ sidx = 0
  /\ allIntents = <<>> /\ primaryAction = Null
  /\ calls = <<>> /\ result = NoResult
Return(intent) == [kind |-> "return", intent |-> intent, msg |-> ""]
Throw(msg) == [kind |-> "throw", intent |-> EmptyIntent, msg |-> msg]

\* A safeGroqCall: the site it is made from, the chunk and piece it is for,
\* its estimated input tokens, whether it reached the oracle, how it ended
\* (outcome, and as kind the failure's kind or the content's parse) and what
\* it added to the request's intents.
Call(site, chunk, piece, tokens, reached) ==
  [site |-> site, chunk |-> chunk, piece |-> piece, tokens |-> tokens, reached |-> reached,
   outcome |-> IF reached THEN "pending" ELSE "preflight", kind |-> "", yield |-> "none"]

\* the last call, ended
Ended(outcome, kind, yield) ==
  [calls EXCEPT ![Len(calls)].outcome = outcome, ![Len(calls)].kind = kind,
                ![Len(calls)].yield = yield]

(***************************************************************************)
(* safeGroqCall.                                                           *)
(***************************************************************************)
\* the pre-flight check of line 198 lets the call through
PreflightNoCheck(tokens) == TRUE

PreflightOk(tokens) == ~(tokens > MAX_INPUT_TOKENS_PER_CALL)

\* the message of the error safeGroqCall throws when the oracle fails with msg
Thrown(msg) == IF IncludesToken(msg) THEN MsgTokenLimit ELSE msg

\* how a failed reply is recorded
FailureOutcome(r) == IF r.kind = "budget" THEN "oracle_budget" ELSE "oracle_transport"

(***************************************************************************)
(* parseIntent.                                                            *)
(***************************************************************************)
\* the catch of lines 538-554
ErrorResult(msg) ==
  IF IncludesToken(msg)
  THEN [EmptyIntent EXCEPT !.action = "error", !.message = MsgLongInput,
                           !.partialProcessing = TRUE]
  ELSE [EmptyIntent EXCEPT !.action = "error", !.message = msg]

\* parsed.query = parsed.query || text
WithQuery(intent, text) == IF intent.query # <<>> THEN intent ELSE [intent EXCEPT !.query = text]

\* What the caller of the entered function gets when parseLongInput returns
\* or throws r: parseIntent turns a throw into an error result, and
\* parseIntentWithRetry hands on what parseIntent returns.
Deliver(by, r) ==
  IF by \in {"parseIntent", "parseIntentWithRetry"} /\ r.kind = "throw"
  THEN Return(ErrorResult(r.msg))
  ELSE r

\* parseLongInput entered with text: lines 229-292, up to the first await
LongInputStart(by, text, mode) ==
  LET sysLen == ParseLongPromptLen + ModeContextLen(mode)
      inputTokens == PromptTokens(sysLen, StrLen(text))
  IN IF inputTokens <= MAX_INPUT_TOKENS_PER_CALL
     THEN /\ calls' = <<Call("long_single", 0, 0, inputTokens, PreflightOk(inputTokens))>>
          /\ IF PreflightOk(inputTokens)
             THEN pc' = "long_single_wait" /\ result' = NoResult
             ELSE pc' = "done" /\ result' = Deliver(by, Throw(MsgPreflight))
          /\ chunks' = <<>> /\ idx' = 0
          /\ UNCHANGED <<smallerChunks, sidx, allIntents, primaryAction>>
     ELSE /\ chunks' = splitTextIntoChunks(text,
                         MAX_INPUT_TOKENS_PER_CALL - TokensOfLength(sysLen) - ChunkMargin)
          /\ idx' = 1
          /\ allIntents' = <<>>
          /\ primaryAction' = Null
          /\ pc' = "chunk_send"
          /\ calls' = <<>>
          /\ result' = NoResult
          /\ UNCHANGED <<smallerChunks, sidx>>

\* parseIntent without the test of lines 476-478
ParseIntentUnguarded(by, text, mode) ==
  /\ pc = "idle"
  /\ entry' = by /\ userText' = text /\ ctxMode' = mode
  /\ LET inputTokens ==
           PromptTokens(ParseIntentPromptLen + ModeContextLen(mode), StrLen(text))
     IN IF inputTokens <= MAX_INPUT_TOKENS_PER_CALL
        THEN /\ calls' = <<Call("single", 0, 0, inputTokens, PreflightOk(inputTokens))>>
             /\ IF PreflightOk(inputTokens)
                THEN pc' = "single_wait" /\ result' = NoResult
                ELSE pc' = "done" /\ result' = Return(ErrorResult(MsgPreflight))
             /\ UNCHANGED loopvars
        ELSE LongInputStart(by, text, mode)
  /\ UNCHANGED svars

\* parseIntent(userText, context), and parseIntentWithRetry around it
ParseIntent(by, text, mode) ==
  /\ pc = "idle"
  /\ entry' = by /\ userText' = text /\ ctxMode' = mode
  /\ IF ~NonBlank(text)
     THEN /\ result' = Return([EmptyIntent EXCEPT !.action = "error", !.message = MsgEmptyInput])
          /\ pc' = "done"
          /\ UNCHANGED <<loopvars, calls>>
     ELSE LET inputTokens ==
                PromptTokens(ParseIntentPromptLen + ModeContextLen(mode), StrLen(text))
          IN IF inputTokens <= MAX_INPUT_TOKENS_PER_CALL
             THEN /\ calls' = <<Call("single", 0, 0, inputTokens, PreflightOk(inputTokens))>>
                  /\ IF PreflightOk(inputTokens)
                     THEN pc' = "single_wait" /\ result' = NoResult
                     ELSE pc' = "done" /\ result' = Return(ErrorResult(MsgPreflight))
                  /\ UNCHANGED loopvars
             ELSE LongInputStart(by, text, mode)
  /\ UNCHANGED svars

\* the oracle answers parseIntent's single call: lines 527-532 and the catch
SingleReply(r) ==
  /\ pc = "single_wait"
  /\ pc' = "done"
  /\ IF r.err # ""
     THEN /\ result' = Return(ErrorResult(Thrown(r.err)))
          /\ calls' = Ended(FailureOutcome(r), r.kind, "none")
     ELSE IF r.parse = "ok"
     THEN /\ result' = Return(WithQuery(r.intent, userText))
          /\ calls' = Ended("parsed", r.parse, "oracle")
     ELSE /\ result' = Return(ErrorResult(r.parseMsg))
          /\ calls' = Ended("unparsed", r.parse, "none")
  /\ UNCHANGED <<reqvars, loopvars, svars>>

(***************************************************************************)
(* parseLongInput.                                                         *)
(***************************************************************************)
\* parseLongInput(userText, context) called by a user of the module
ParseLongInput(text, mode) ==
  /\ pc = "idle"
  /\ entry' = "parseLongInput" /\ userText' = text /\ ctxMode' = mode
  /\ LongInputStart("parseLongInput", text, mode)
  /\ UNCHANGED svars

\* the oracle answers the single call of lines 260-282
LongSingleReply(r) ==
  /\ pc = "long_single_wait"
  /\ pc' = "done"
  /\ IF r.err # ""
     THEN /\ result' = Deliver(entry, Throw(Thrown(r.err)))
          /\ calls' = Ended(FailureOutcome(r), r.kind, "none")
     ELSE IF r.parse = "ok"
     THEN /\ result' = Return(WithQuery(r.intent, userText))
          /\ calls' = Ended("parsed", r.parse, "oracle")
     ELSE IF r.parse = "repairable"
     THEN /\ result' = Return(WithQuery(r.intent, userText))
          /\ calls' = Ended("repaired", r.parse, "oracle")
     ELSE IF FallbackThrows(userText)
     THEN /\ result' = Deliver(entry, Throw(MsgTrimOfUndefined))
          /\ calls' = Ended("unparsed", r.parse, "none")
     ELSE /\ result' = Return(regexFallbackParser(userText))
          /\ calls' = Ended("unparsed", r.parse, "fallback")
  /\ UNCHANGED <<reqvars, loopvars, svars>>

\* allIntents.unshift(intent)
PushFront(intents, intent) == <<intent>> \o intents

\* allIntents.push(intent)
Push(intents, intent) == Append(intents, intent)

\* the systemPrompt of parseLongInput
LongSysLen == ParseLongPromptLen + ModeContextLen(ctxMode)

\* the length of chunkPrompt for chunk idx
ChunkPromptLen ==
  (IF Len(chunks) > 1 THEN AnnotationLen(idx, Len(chunks)) ELSE 0) + StrLen(chunks[idx])

\* the catch re-splitting the chunk whatever the error
ChunkCatchResplittingAll(msg) ==
  /\ smallerChunks' = splitTextIntoChunks(chunks[idx], MAX_INPUT_TOKENS_PER_CALL \div 2)
  /\ sidx' = 1
  /\ pc' = "retry_send"
  /\ UNCHANGED <<chunks, idx, allIntents, primaryAction>>

\* the catch of lines 336-357 for an error with message msg, up to the first
\* call of the retry loop
ChunkCatch(msg) ==
  IF IncludesToken(msg)
  THEN /\ smallerChunks' = splitTextIntoChunks(chunks[idx], MAX_INPUT_TOKENS_PER_CALL \div 2)
       /\ sidx' = 1
       /\ pc' = "retry_send"
       /\ UNCHANGED <<chunks, idx, allIntents, primaryAction>>
  ELSE /\ idx' = idx + 1
       /\ pc' = "chunk_send"
       /\ UNCHANGED <<chunks, smallerChunks, sidx, allIntents, primaryAction>>

\* the head of the loop of line 295: the call for the next chunk, or, after
\* the last one, the merge of line 361
ChunkSend ==
  /\ pc = "chunk_send"
  /\ IF idx > Len(chunks)
     THEN /\ result' = Deliver(entry, Return(mergeIntents(allIntents, primaryAction)))
          /\ pc' = "done"
          /\ UNCHANGED <<loopvars, calls>>
     ELSE LET tokens == PromptTokens(LongSysLen, ChunkPromptLen)
          IN /\ calls' = Append(calls, Call("chunk", idx, 0, tokens, PreflightOk(tokens)))
             /\ result' = NoResult
             /\ IF PreflightOk(tokens)
                THEN pc' = "chunk_wait" /\ UNCHANGED loopvars
                ELSE ChunkCatch(MsgPreflight)
  /\ UNCHANGED <<reqvars, svars>>

\* the first chunk's intent sets primaryAction
Primary(intent) == IF idx = 1 THEN intent.action ELSE primaryAction

\* the oracle answers the call for chunk idx: lines 304-335 and the catch
ChunkReply(r) ==
  /\ pc = "chunk_wait"
  /\ IF r.err # ""
     THEN /\ calls' = Ended(FailureOutcome(r), r.kind, "none")
          /\ ChunkCatch(Thrown(r.err))
     ELSE /\ pc' = "chunk_send"
          /\ idx' = idx + 1
          /\ IF r.parse = "ok"
             THEN /\ allIntents' = Push(allIntents, WithQuery(r.intent, chunks[idx]))
                  /\ primaryAction' = Primary(r.intent)
                  /\ calls' = Ended("parsed", r.parse, "oracle")
             ELSE IF r.parse = "repairable"
             THEN /\ allIntents' = Push(allIntents, WithQuery(r.intent, chunks[idx]))
                  /\ primaryAction' = Primary(r.intent)
                  /\ calls' = Ended("repaired", r.parse, "oracle")
             ELSE IF FallbackThrows(chunks[idx])
             THEN /\ UNCHANGED <<allIntents, primaryAction>>
                  /\ calls' = Ended("unparsed", r.parse, "none")
             ELSE /\ allIntents' = Push(allIntents, regexFallbackParser(chunks[idx]))
                  /\ primaryAction' = primaryAction
                  /\ calls' = Ended("unparsed", r.parse, "fallback")
          /\ UNCHANGED <<chunks, smallerChunks, sidx>>
  /\ UNCHANGED <<reqvars, result, svars>>

\* the head of the loop of line 344: the call for the next smaller chunk, or,
\* after the last one, on to the next chunk
RetrySend ==
  /\ pc = "retry_send"
  /\ IF sidx > Len(smallerChunks)
     THEN /\ idx' = idx + 1
          /\ pc' = "chunk_send"
          /\ UNCHANGED <<chunks, smallerChunks, sidx, allIntents, primaryAction, calls>>
     ELSE LET tokens == PromptTokens(LongSysLen, StrLen(smallerChunks[sidx]))
          IN /\ calls' = Append(calls, Call("retry", idx, sidx, tokens, PreflightOk(tokens)))
             /\ IF PreflightOk(tokens)
                THEN pc' = "retry_wait" /\ UNCHANGED loopvars
                ELSE /\ sidx' = sidx + 1
                     /\ pc' = "retry_send"
                     /\ UNCHANGED <<chunks, idx, smallerChunks, allIntents, primaryAction>>
  /\ UNCHANGED <<reqvars, result, svars>>

\* the oracle answers the call for a smaller chunk: lines 346-354
RetryReply(r) ==
  /\ pc = "retry_wait"
  /\ pc' = "retry_send"
  /\ sidx' = sidx + 1
  /\ IF r.err # ""
     THEN /\ calls' = Ended(FailureOutcome(r), r.kind, "none")
          /\ UNCHANGED allIntents
     ELSE IF r.parse = "ok"
     THEN /\ calls' = Ended("parsed", r.parse, "oracle")
          /\ allIntents' = Push(allIntents, r.intent)
     ELSE /\ calls' = Ended("unparsed", r.parse, "none")
          /\ UNCHANGED allIntents
  /\ UNCHANGED <<reqvars, chunks, idx, smallerChunks, primaryAction, result, svars>>

(***************************************************************************)
(* safeGroqCall called by a user of the module.                            *)
(***************************************************************************)
SafeGroqCall(sysLen, userPrompt) ==
  /\ pc = "idle"
  /\ entry' = "safeGroqCall" /\ userText' = userPrompt /\ ctxMode' = Absent
  /\ LET inputTokens == PromptTokens(sysLen, StrLen(userPrompt))
     IN /\ calls' = <<Call("direct", 0, 0, inputTokens, PreflightOk(inputTokens))>>
        /\ IF PreflightOk(inputTokens)
           THEN pc' = "direct_wait" /\ result' = NoResult
           ELSE pc' = "done" /\ result' = Throw(MsgPreflight)
  /\ UNCHANGED <<loopvars, svars>>

DirectReply(r) ==
  /\ pc = "direct_wait"
  /\ pc' = "done"
  /\ IF r.err # ""
     THEN /\ result' = Throw(Thrown(r.err))
          /\ calls' = Ended(FailureOutcome(r), r.kind, "none")
     ELSE /\ result' = [kind |-> "response", intent |-> EmptyIntent, msg |-> ""]
          /\ calls' = Ended("returned", "", "none")
  /\ UNCHANGED <<reqvars, loopvars, svars>>

(***************************************************************************)
(* The specification of a request.                                         *)
(***************************************************************************)
Init == RequestIdle /\ SplitIdle /\ MergeIdle /\ RepairIdle /\ FallbackIdle /\ UnitsIdle

Next ==
  \/ \E by \in {"parseIntent", "parseIntentWithRetry"}, text \in Texts, mode \in Modes :
       ParseIntent(by, text, mode)
  \/ \E text \in Texts, mode \in Modes : ParseLongInput(text, mode)
  \/ \E text \in Texts : SafeGroqCall(ParseLongPromptLen, text)
  \/ \E r \in Replies : SingleReply(r)
  \/ \E r \in Replies : LongSingleReply(r)
  \/ ChunkSend
  \/ \E r \in Replies : ChunkReply(r)
  \/ RetrySend
  \/ \E r \in Replies : RetryReply(r)
  \/ \E r \in Replies : DirectReply(r)

Spec == Init /\ [][Next]_vars

(***************************************************************************)
(* The splitter called on every small text: SplitSpec.                     *)
(***************************************************************************)
SmallTexts == {FromChars(cs) : cs \in UNION {[1..n -> Alphabet] : n \in 0..MaxLen}}

\* the texts of letters and spaces
SpacedTexts == {FromChars(cs) : cs \in UNION {[1..n -> {"a", " "}] : n \in 0..MaxLen}}

SplitInit ==
  /\ sText \in SmallTexts \cup SpacedTexts
  /\ sCeiling \in 1..MaxCeiling
  /\ sChunks = <<>>
  /\ sDone = FALSE
  /\ RequestIdle /\ MergeIdle /\ RepairIdle /\ FallbackIdle /\ UnitsIdle

SplitCall ==
  /\ ~sDone
  /\ sChunks' = splitTextIntoChunks(sText, sCeiling)
  /\ sDone' = TRUE
  /\ UNCHANGED <<sText, sCeiling, pvars, mvars, jvars, fvars, uvars>>

SplitNext == SplitCall

SplitSpec == SplitInit /\ [][SplitNext]_vars

(***************************************************************************)
(* splitTextIntoChunks run statement by statement: SplitRunSpec.  The      *)
(* record run holds the locals of the function: every step is one pass     *)
(* through the body of one of its three loops.                             *)
(***************************************************************************)
\* longest text (in characters) of the texts of SplitRunSpec
MaxRunLen == 5

\* the texts of SplitRunSpec hold spaces too
RunAlphabet == Alphabet \cup {" "}
RunTexts == {FromChars(cs) : cs \in UNION {[1..n -> RunAlphabet] : n \in 0..MaxRunLen}}

\* the calls of SplitRunSpec: every short text with every small ceiling, and
\* the texts of a request with the ceiling of the retry (line 342)
RunCalls ==
  (RunTexts \X (1..MaxCeiling)) \cup (Texts \X {MAX_INPUT_TOKENS_PER_CALL \div 2})

SplitRunInit ==
  /\ \E c \in RunCalls : run = [NoRun EXCEPT !.pc = "start", !.text = c[1],
                                              !.maxTokensPerChunk = c[2]]
  /\ RequestIdle /\ SplitIdle /\ MergeIdle /\ RepairIdle /\ FallbackIdle /\ EstimateIdle
  /\ QueueIdle

\* lines 45-54: the early return, or the sentences and the empty accumulators
RunEnter ==
  /\ run.pc = "start"
  /\ IF run.text = <<>> \/ estimateTokens(run.text) <= run.maxTokensPerChunk
     THEN run' = [run EXCEPT !.pc = "done", !.returned = <<run.text>>]
     ELSE LET matched == MatchSentences(run.text)
          IN run' = [run EXCEPT !.pc = "sentence", !.s = 1,
                                !.sentences = IF matched = <<>> THEN <<run.text>> ELSE matched]

\* one pass of the loop of line 56 up to the loop over the lines, or, after
\* the last sentence, lines 108-113
RunSentence ==
  /\ run.pc = "sentence"
  /\ IF run.s > Len(run.sentences)
     THEN LET pushed == IF NonBlank(run.currentChunk)
                        THEN Append(run.chunks, Trim(run.currentChunk)) ELSE run.chunks
          IN run' = [run EXCEPT !.pc = "done", !.chunks = pushed,
                                !.returned = IF Len(pushed) > 0 THEN pushed ELSE <<run.text>>]
     ELSE LET sentence == run.sentences[run.s]
              sentenceTokens == estimateTokens(sentence)
              currentTokens == estimateTokens(run.currentChunk)
              saved == IF NonBlank(run.currentChunk)
                       THEN Append(run.chunks, Trim(run.currentChunk)) ELSE run.chunks
              kept == IF NonBlank(run.currentChunk) THEN <<>> ELSE run.currentChunk
          IN IF currentTokens + sentenceTokens > run.maxTokensPerChunk
             THEN IF sentenceTokens > run.maxTokensPerChunk
                  THEN run' = [run EXCEPT !.pc = "line", !.chunks = saved, !.currentChunk = kept,
                                          !.lines = SplitLines(sentence), !.l = 1,
                                          !.lineChunk = <<>>]
                  ELSE run' = [run EXCEPT !.chunks = saved, !.currentChunk = sentence,
                                          !.s = @ + 1]
             ELSE run' = [run EXCEPT !.currentChunk = Concat(@, sentence), !.s = @ + 1]

\* one pass of the loop of line 73 up to the loop over the characters, or,
\* after the last line, lines 98-100
RunLine ==
  /\ run.pc = "line"
  /\ IF run.l > Len(run.lines)
     THEN run' = [run EXCEPT !.pc = "sentence", !.s = @ + 1,
                             !.currentChunk = IF NonBlank(run.lineChunk)
                                              THEN run.lineChunk ELSE @]
     ELSE LET line == run.lines[run.l]
              lineTokens == estimateTokens(line)
              lineChunkTokens == estimateTokens(run.lineChunk)
              saved == IF NonBlank(run.lineChunk)
                       THEN Append(run.chunks, Trim(run.lineChunk)) ELSE run.chunks
          IN IF lineChunkTokens + lineTokens > run.maxTokensPerChunk
             THEN IF lineTokens > run.maxTokensPerChunk
                  THEN run' = [run EXCEPT !.pc = "char", !.chunks = saved, !.i = 0]
                  ELSE run' = [run EXCEPT !.chunks = saved, !.lineChunk = line, !.l = @ + 1]
             ELSE run' = [run EXCEPT !.lineChunk = JoinLine(@, line), !.l = @ + 1]

\* the loop of line 85 with maxChars a fourth of a token
RunCharShortStride ==
  /\ run.pc = "char"
  /\ LET line == run.lines[run.l]
         maxChars == run.maxTokensPerChunk \div CharsPerToken
     IN IF run.i < StrLen(line)
        THEN run' = [run EXCEPT !.chunks = Append(@, Trim(Substring(line, run.i, run.i + maxChars))),
                                !.i = @ + maxChars]
        ELSE run' = [run EXCEPT !.pc = "line", !.lineChunk = <<>>, !.l = @ + 1]

\* one pass of the loop of line 85, or, after it, line 88
RunChar ==
  /\ run.pc = "char"
  /\ LET line == run.lines[run.l]
         maxChars == run.maxTokensPerChunk * CharsPerToken
     IN IF run.i < StrLen(line)
        THEN run' = [run EXCEPT !.chunks = Append(@, Trim(Substring(line, run.i, run.i + maxChars))),
                                !.i = @ + maxChars]
        ELSE run' = [run EXCEPT !.pc = "line", !.lineChunk = <<>>, !.l = @ + 1]

SplitRunNext ==
  /\ RunEnter \/ RunSentence \/ RunLine \/ RunChar
  /\ UNCHANGED <<pvars, sText, sCeiling, sChunks, sDone, mvars, jvars, fvars, evars, qvars>>

SplitRunSpec == SplitRunInit /\ [][SplitRunNext]_vars

(***************************************************************************)
(* estimateTokens called on strings and on other values: EstimateSpec.     *)
(***************************************************************************)
\* longest string (in characters) handed to estimateTokens in EstimateSpec
MaxEstimateLen == 40

\* values that are not strings: undefined, null, 0, 5, NaN, false, true, an
\* array of five elements, an object with a length property, a String object
NonStrings ==
  { JsOther("undefined", FALSE, -1), JsOther("object", FALSE, -1),
    JsOther("number", FALSE, -1), JsOther("number", TRUE, -1),
    JsOther("boolean", FALSE, -1), JsOther("boolean", TRUE, -1),
    JsOther("object", TRUE, 5), JsOther("object", TRUE, 8), JsOther("object", TRUE, 0) }

EstimateInputs ==
  {JsString(Rep("a", n)) : n \in 0..MaxEstimateLen}
  \cup {JsString(t) : t \in Texts}
  \cup NonStrings

\* estimateTokens(text) for any value
estimateTokensOf(value) ==
  IF ~value.truthy \/ value.typeof # "string" THEN 0 ELSE estimateTokens(value.text)

EstimateInit ==
  /\ eInput \in EstimateInputs
  /\ eTokens = 0
  /\ eCalls = 0
  /\ RequestIdle /\ SplitIdle /\ MergeIdle /\ RepairIdle /\ FallbackIdle /\ RunIdle
  /\ QueueIdle

\* a call of estimateTokens with the value; the value may be estimated again
EstimateCall ==
  /\ eCalls < 2
  /\ eTokens' = estimateTokensOf(eInput)
  /\ eCalls' = eCalls + 1
  /\ UNCHANGED <<eInput, run, qvars, pvars, sText, sCeiling, sChunks, sDone, mvars, jvars, fvars>>

EstimateNext == EstimateCall

EstimateSpec == EstimateInit /\ [][EstimateNext]_vars

(***************************************************************************)
(* The process-queue endpoint of webhooks/webhook.js: QueueSpec.           *)
(***************************************************************************)
\* the most pending actions of the user in QueueSpec
MaxPending == 25

batchSize == 10

Min(a, b) == IF a < b THEN a ELSE b

\* a queued action: the main webhook queues create_task actions (lines
\* 61-65); the user's record may hold actions of another kind
Queued(action, n) == [action |-> action, task |-> Task(Rep("q", n))]

\* the pending actions of the user before the requests: n actions, all
\* create_task or every third one of another kind
PendingQueues ==
  {[k \in 1..n |-> Queued("create_task", k)] : n \in 0..MaxPending}
  \cup {[k \in 1..n |-> Queued(IF k % 3 = 0 THEN "remind" ELSE "create_task", k)] :
           n \in 0..MaxPending}

\* the loop of lines 308-322 from its test on: i, pendingActions, the user's
\* tasks and processedActions
RECURSIVE ProcessBatch(_, _, _, _)
ProcessBatch(i, pendingActions, tasks, processedActions) ==
  IF i < Min(batchSize, Len(pendingActions))
  THEN LET action == Head(pendingActions)
       IN IF action.action = "create_task"
          THEN ProcessBatch(i + 1, Tail(pendingActions), Append(tasks, action.task),
                            Append(processedActions, action.task))
          ELSE ProcessBatch(i + 1, Tail(pendingActions), tasks, processedActions)
  ELSE [pendingActions |-> pendingActions, tasks |-> tasks,
        processedActions |-> processedActions]

QueueInit ==
  /\ qPending \in PendingQueues
  /\ qTasks = <<>>
  /\ qReply = NoReply
  /\ RequestIdle /\ SplitIdle /\ MergeIdle /\ RepairIdle /\ FallbackIdle
  /\ RunIdle /\ EstimateIdle

\* POST /webhook/process-queue with the body's userId
ProcessQueue(userId) ==
  /\ IF ~Truthy(userId)
     THEN /\ qReply' = [NoReply EXCEPT !.status = 400]
          /\ UNCHANGED <<qPending, qTasks>>
     ELSE IF Len(qPending) = 0
     THEN /\ qReply' = [NoReply EXCEPT !.status = 200, !.success = TRUE]
          /\ UNCHANGED <<qPending, qTasks>>
     ELSE LET r == ProcessBatch(0, qPending, qTasks, <<>>)
          IN /\ qPending' = r.pendingActions
             /\ qTasks' = r.tasks
             /\ qReply' = [status |-> 200, success |-> TRUE,
                           processed |-> Len(r.processedActions),
                           remaining |-> Len(r.pendingActions)]
  /\ UNCHANGED <<run, evars, pvars, sText, sCeiling, sChunks, sDone, mvars, jvars, fvars>>

QueueNext == \E userId \in {Absent, "user123"} : ProcessQueue(userId)

QueueSpec == QueueInit /\ [][QueueNext]_vars

(***************************************************************************)
(* mergeIntents called on every short sequence of intents: MergeSpec.      *)
(***************************************************************************)
\* the most intents handed to mergeIntents in MergeSpec
MaxIntents == 3

\* n tasks titled c, cc, ccc, ...
Tasks(c, n) == [k \in 1..n |-> Task(Rep(c, k))]

\* The intents of the chunks: what the oracle's content parses to (any
\* object, the prompt's format not being enforced) and what the fallback
\* classifier returns.
MergePool ==
  { [EmptyIntent EXCEPT !.action = "create_task", !.mode = "tasks", !.tasks = Tasks("t", 1),
                        !.entities = [NoEntities EXCEPT !["task_ref"] = "1"]],
    [EmptyIntent EXCEPT !.action = "create_task", !.tasks = Tasks("u", 9),
                        !.entities = [NoEntities EXCEPT !["person"] = Null]],
    [EmptyIntent EXCEPT !.action = "create_task", !.tasks = Tasks("v", 11),
                        !.fallback = TRUE, !.mode = "auto"],
    [EmptyIntent EXCEPT !.action = "list_tasks",
                        !.entities = [NoEntities EXCEPT !["sortBy"] = "priority",
                                                        !["person"] = "ann"]],
    [EmptyIntent EXCEPT !.action = "list_tasks",
                        !.entities = [NoEntities EXCEPT !["sortBy"] = Null]],
    [EmptyIntent EXCEPT !.action = "list_notes",
                        !.entities = [NoEntities EXCEPT !["sortBy"] = "",
                                                        !["task_ref"] = "2"]],
    [EmptyIntent EXCEPT !.action = "delete_task",
                        !.entities = [NoEntities EXCEPT !["task_ref"] = "3"]],
    [EmptyIntent EXCEPT !.action = "create_note",
                        !.notes = <<Note(Rep("n", 1), Rep("n", 3))>>],
    [EmptyIntent EXCEPT !.action = "math", !.numbers = <<1, 2>>,
                        !.entities = [NoEntities EXCEPT !["operation"] = "addition"]],
    [EmptyIntent EXCEPT !.action = "small_talk", !.reply_hint = "hello"],
    [EmptyIntent EXCEPT !.action = "unknown"],
    [EmptyIntent EXCEPT !.action = "frobnicate"],
    [EmptyIntent EXCEPT !.action = Null],
    EmptyIntent }

\* parseLongInput's primaryAction for allIntents: null, or the action of the
\* first chunk's intent when the oracle's content gave it
Pinned(intents) ==
  {Null} \cup (IF intents # <<>> /\ ~intents[1].fallback THEN {intents[1].action} ELSE {})

MergeInit ==
  /\ mIntents \in UNION {[1..n -> MergePool] : n \in 0..MaxIntents}
  /\ mPrimary \in Pinned(mIntents)
  /\ mResult = EmptyIntent
  /\ mDone = FALSE
  /\ RequestIdle /\ SplitIdle /\ RepairIdle /\ FallbackIdle /\ UnitsIdle

MergeCall ==
  /\ ~mDone
  /\ mResult' = mergeIntents(mIntents, mPrimary)
  /\ mDone' = TRUE
  /\ UNCHANGED <<mIntents, mPrimary, pvars, sText, sCeiling, sChunks, sDone, jvars, fvars, uvars>>

MergeNext == MergeCall

MergeSpec == MergeInit /\ [][MergeNext]_vars

(***************************************************************************)
(* repairTruncatedJson called on every short string: RepairSpec.           *)
(***************************************************************************)
\* longest string (in characters) handed to repairTruncatedJson in RepairSpec
MaxJsonLen == 5

\* the characters of the strings: the braces and brackets, the comma, a
\* space and a digit standing for the content
JsonAlphabet == {"{", "}", "[", "]", ",", " ", "1"}

JsonTexts == {FromChars(cs) : cs \in UNION {[1..n -> JsonAlphabet] : n \in 0..MaxJsonLen}}

\* {"tasks":[{"t":1}]}: an object whose tasks list holds an object
TasksObject ==
  FromChars(<<"{", "\"", "t", "a", "s", "k", "s", "\"", ":", "[", "{", "\"", "t", "\"", ":",
              "1", "}", "]", "}">>)

\* the object cut after each of its characters but the last
TruncatedTasks == {Take(TasksObject, k) : k \in 1..(StrLen(TasksObject) - 1)}

RepairInit ==
  /\ jText \in JsonTexts \cup TruncatedTasks
  /\ jRepaired = <<>>
  /\ jDone = FALSE
  /\ RequestIdle /\ SplitIdle /\ MergeIdle /\ FallbackIdle /\ UnitsIdle

RepairCall ==
  /\ ~jDone
  /\ jRepaired' = repairTruncatedJson(jText)
  /\ jDone' = TRUE
  /\ UNCHANGED <<jText, pvars, sText, sCeiling, sChunks, sDone, mvars, fvars, uvars>>

RepairNext == RepairCall

RepairSpec == RepairInit /\ [][RepairNext]_vars

(***************************************************************************)
(* regexFallbackParser called on short texts and on lists: FallbackSpec.   *)
(***************************************************************************)
\* the most words of a text handed to regexFallbackParser in FallbackSpec
MaxWords == 3
\* the most lines of a list handed to regexFallbackParser in FallbackSpec
MaxItems == 51

\* the pieces the short texts are made of: keywords of the rules, a digit, an
\* operator, the marks of a numbered list, whitespace and a letter
Words ==
  {Keywords.Finish, Keywords.Done, Keywords.Delete, Keywords.Remove, Keywords.Make, Keywords.High, Keywords.Show, Keywords.Sort, Keywords.NoteColon,
   Keywords.Focus, Keywords.What, Keywords.Urgent, Keywords.Hi, Keywords.Help,
   Rep("1", 1), Rep("+", 1), Rep(")", 1), Rep(".", 1), Rep(" ", 1), Rep(NL, 1), Rep("a", 1)}

\* n lines, each the string line
RECURSIVE ListOf(_, _)
ListOf(line, n) ==
  IF n <= 0 THEN <<>>
  ELSE IF n = 1 THEN line
  ELSE Concat(Concat(ListOf(line, n - 1), Rep(NL, 1)), line)

NumberedLine == FromChars(<<"1", ")", " ", "a">>)
PlainLine == FromChars(<<"a", " ", "b">>)

FallbackTexts ==
  {Join(ws) : ws \in UNION {[1..n -> Words] : n \in 0..MaxWords}}
  \cup {ListOf(NumberedLine, n) : n \in 0..MaxItems}
  \cup {ListOf(PlainLine, n) : n \in 0..MaxItems}

FallbackInit ==
  /\ fText \in FallbackTexts
  /\ fThrew = FALSE
  /\ fIntent = EmptyIntent
  /\ fDone = FALSE
  /\ RequestIdle /\ SplitIdle /\ MergeIdle /\ RepairIdle /\ UnitsIdle

FallbackCall ==
  /\ ~fDone
  /\ fThrew' = FallbackThrows(fText)
  /\ fIntent' = IF FallbackThrows(fText) THEN EmptyIntent ELSE regexFallbackParser(fText)
  /\ fDone' = TRUE
  /\ UNCHANGED <<fText, pvars, sText, sCeiling, sChunks, sDone, mvars, jvars, uvars>>

FallbackNext == FallbackCall

FallbackSpec == FallbackInit /\ [][FallbackNext]_vars

\* C1: every chunk the splitter returns is within the ceiling
C1_ChunksWithinCeiling ==
  sDone => \A k \in 1..Len(sChunks) : estimateTokens(sChunks[k]) <= sCeiling

\* C2: the chunks, in order, hold exactly the non-whitespace text of the input
C2_ChunksReconstructText ==
  sDone => NonSpace(Join(sChunks)) = NonSpace(sText)

(***************************************************************************)
(* Properties of a request (Spec).                                         *)
(***************************************************************************)
ParseEntries == {"parseIntent", "parseIntentWithRetry"}

\* the request has returned to the caller of parseIntent
ParseDone == pc = "done" /\ entry \in ParseEntries

\* the request went through the chunk loop and mergeIntents has been called
Merged == pc = "done" /\ idx >= 1

CallIds == 1..Len(calls)

\* C3: every call that reached the oracle has estimated input tokens within
\* MAX_INPUT_TOKENS_PER_CALL, whichever site made it, and a call over the
\* ceiling made through safeGroqCall ends in the pre-flight error with the
\* oracle not reached
C3_NoCallOverCeilingReachesOracle ==
  /\ \A k \in CallIds : calls[k].reached => calls[k].tokens <= MAX_INPUT_TOKENS_PER_CALL
  /\ \A k \in CallIds :
       calls[k].tokens > MAX_INPUT_TOKENS_PER_CALL => calls[k].outcome = "preflight"
  /\ (pc = "done" /\ entry = "safeGroqCall" /\ calls[1].tokens > MAX_INPUT_TOKENS_PER_CALL)
       => result = Throw(MsgPreflight)

\* a chunk's call was rejected by the pre-flight check and later calls of the
\* same request reached the oracle
C3_Witness ==
  /\ \E k \in CallIds : calls[k].site = "chunk" /\ ~calls[k].reached
                        /\ calls[k].tokens > MAX_INPUT_TOKENS_PER_CALL
  /\ \E k \in CallIds : calls[k].site = "retry" /\ calls[k].reached

\* C4: the intent returned to a caller of parseIntent for a non-empty text
\* has an action of the closed enumeration
C4_ActionInWhitelist ==
  (ParseDone /\ NonBlank(userText) /\ result.kind = "return")
    => result.intent.action \in ActionWhitelist

\* C5: when the content of the single call does not parse, the caller of
\* parseIntent gets the repaired content's intent, or the fallback
\* classifier's intent for the text when the repaired content does not parse
\* either, and never an error result
C5_ParseFailureRecovered ==
  (ParseDone /\ Len(calls) = 1 /\ calls[1].site \in {"single", "long_single"}
     /\ calls[1].outcome \in {"repaired", "unparsed"})
    => /\ result.kind = "return"
       /\ result.intent.action # "error"
       /\ calls[1].kind = "garbage" => result.intent = regexFallbackParser(userText)

\* what the request returns when the fallback classifier stands in for every
\* oracle call
AllByFallback ==
  IF idx = 0 THEN regexFallbackParser(userText)
  ELSE mergeIntents([k \in 1..Len(chunks) |-> regexFallbackParser(chunks[k])], Null)

\* C6: when every oracle call of a request fails with a transport error, the
\* intent returned is the fallback classifier's
C6_TransportFailureFallsBack ==
  (ParseDone /\ NonBlank(userText) /\ Len(calls) >= 1
     /\ \A k \in CallIds : calls[k].outcome = "oracle_transport")
    => result = Return(AllByFallback)

\* C7: a chunk whose call fails with a budget error is re-split at half the
\* ceiling, and every piece of it adds an intent, the oracle's or the
\* fallback classifier's, to the fusion
C7_EveryPieceContributes ==
  Merged =>
    \A k \in CallIds :
      (calls[k].site = "chunk" /\ calls[k].outcome \in {"preflight", "oracle_budget"})
        => \A j \in 1..Len(splitTextIntoChunks(chunks[calls[k].chunk],
                                               MAX_INPUT_TOKENS_PER_CALL \div 2)) :
             \E m \in CallIds : /\ calls[m].site = "retry"
                                /\ calls[m].chunk = calls[k].chunk
                                /\ calls[m].piece = j
                                /\ calls[m].yield # "none"

\* C8: a budget failure, of the pre-flight check or of the oracle, is not
\* reported by the result parseIntent returns for a non-empty text
C8_BudgetFailureNotSurfaced ==
  (ParseDone /\ NonBlank(userText)
     /\ \E k \in CallIds : calls[k].outcome \in {"preflight", "oracle_budget"})
    => /\ result.intent.action # "error"
       /\ result.intent.message \notin {MsgTokenLimit, MsgPreflight, MsgLongInput}

C10_SingleIntentUnchanged ==
  (Merged /\ Len(allIntents) = 1) => result = Return(allIntents[1])

\* of a request of several chunks one intent alone reached the fusion, and it
\* holds more tasks than the fusion of several intents would expose
C10_Witness ==
  /\ Merged /\ Len(allIntents) = 1 /\ Len(chunks) > 1
  /\ Len(allIntents[1].tasks) > ImmediateTaskCap
  /\ result.kind = "return"
(***************************************************************************)
(* Properties of mergeIntents (MergeSpec).                                 *)
(***************************************************************************)
\* the fusion of two or more intents has been made
Fused == mDone /\ Len(mIntents) >= 2

\* the actions from the highest rank to the lowest
RankOrder ==
  <<"delete_task", "complete_task", "update_priority", "create_task", "create_note",
    "show_urgent", "focus", "list_tasks", "list_notes", "math", "help", "small_talk",
    "unknown">>

\* the place of an action of the enumeration in RankOrder
RankOf(action) == CHOOSE k \in 1..Len(RankOrder) : RankOrder[k] = action

\* mIntents in the order p
Permuted(p) == [k \in 1..Len(mIntents) |-> mIntents[p[k]]]

\* C11: with two or more intents and no pinned primary action the fused
\* action is an action of the rank order, no input's action outranks it,
\* and it is the same for every permutation of the inputs
C11_HighestRankAnyOrder ==
  (Fused /\ ~Truthy(mPrimary)) =>
    /\ mResult.action \in ActionWhitelist
    /\ \A k \in 1..Len(mIntents) :
         mIntents[k].action \in ActionWhitelist
           => RankOf(mResult.action) <= RankOf(mIntents[k].action)
    /\ \A p \in Permutations(1..Len(mIntents)) :
         mergeIntents(Permuted(p), mPrimary).action = mResult.action

RECURSIVE AllTasks(_)
AllTasks(intents) ==
  IF intents = <<>> THEN <<>> ELSE intents[1].tasks \o AllTasks(Tail(intents))

RECURSIVE AllNotes(_)
AllNotes(intents) ==
  IF intents = <<>> THEN <<>> ELSE intents[1].notes \o AllNotes(Tail(intents))

\* C12: the tasks of the fusion followed by its queue are the inputs' tasks
\* in input order, and its notes the inputs' notes in input order, nothing
\* removed, reordered or deduplicated
C12_SequencesConcatenated ==
  Fused => /\ mResult.tasks \o mResult.queue = AllTasks(mIntents)
           /\ mResult.notes = AllNotes(mIntents)

\* the same intent with tasks was fused twice, tasks went to the queue and a
\* note was fused
C12_Witness ==
  /\ Fused
  /\ \E i, j \in 1..Len(mIntents) : i < j /\ mIntents[i] = mIntents[j]
                                     /\ mIntents[i].tasks # <<>>
  /\ mResult.queue # <<>>
  /\ mResult.notes # <<>>

\* the inputs that have the entity key
Having(key) == {k \in 1..Len(mIntents) : mIntents[k].entities[key] # Absent}

Last(S) == CHOOSE m \in S : \A x \in S : x <= m

\* C13: every entity key but sortBy has the value of the last input that has
\* the key; once an input sets sortBy the fused entities have sortBy set,
\* whatever the later inputs hold for it
C13_EntitiesLastWriterSortSticky ==
  Fused =>
    /\ \A key \in EntityKeys \ {"sortBy"} :
         Having(key) # {}
           => mResult.entities[key] = mIntents[Last(Having(key))].entities[key]
    /\ (\E k \in 1..Len(mIntents) : Truthy(mIntents[k].entities["sortBy"]))
         => Truthy(mResult.entities["sortBy"])

C15_RepairBalances ==
  jDone => /\ Count(jRepaired, "{") = Count(jRepaired, "}")
           /\ Count(jRepaired, "[") = Count(jRepaired, "]")

\* the larger of two numbers
Larger(a, b) == IF a > b THEN a ELSE b

\* C15 as amended: the string returned has the openers of the input and, of
\* each kind, as many closers as the input has openers or closers, whichever
\* are more: the counts are equal when the input has no closer too many
C15_RepairClosesUnmatched ==
  jDone =>
    /\ Count(jRepaired, "{") = Count(jText, "{")
    /\ Count(jRepaired, "[") = Count(jText, "[")
    /\ Count(jRepaired, "}") = Larger(Count(jText, "{"), Count(jText, "}"))
    /\ Count(jRepaired, "]") = Larger(Count(jText, "["), Count(jText, "]"))
    /\ (Count(jText, "}") <= Count(jText, "{") /\ Count(jText, "]") <= Count(jText, "["))
         => (/\ Count(jRepaired, "{") = Count(jRepaired, "}")
             /\ Count(jRepaired, "[") = Count(jRepaired, "]"))

\* a string cut inside an array inside an object, after a comma, was repaired:
\* two brackets and a brace were appended and the comma removed
C15_Witness ==
  /\ jDone
  /\ Count(jText, "[") = Count(jText, "]") + 2
  /\ Count(jText, "{") = Count(jText, "}") + 1
  /\ Count(jText, ",") = Count(jRepaired, ",") + 1
  /\ Count(jRepaired, "]") = 2 /\ Count(jRepaired, "}") = 1

(***************************************************************************)
(* Properties of regexFallbackParser (FallbackSpec).                       *)
(***************************************************************************)
\* C16: regexFallbackParser returns, without throwing, an intent whose action
\* is of the closed enumeration
C16_FallbackNeverThrows ==
  fDone => ~fThrew /\ fIntent.action \in ActionWhitelist

\* no keyword rule matches the text
NoRuleMatches(text) ==
  ~(\/ IsCompletion(text) \/ IsDeletion(text) \/ IsPriorityChange(text) \/ IsListing(text)
    \/ IsNote(text) \/ IsFocus(text) \/ IsUrgentQuery(text) \/ MathMatch(text).ok
    \/ IsGreeting(text))

\* the numbered-list markers of a text: the places where ")" or "." follows a
\* digit
MarkerCount(text) ==
  Cardinality({r \in 2..Len(text) :
                 text[r][1] \in {")", "."} /\ text[r - 1][1] \in DigitChars})

\* C17: when no keyword rule matches, the intent returned has action
\* create_task and one task for each numbered-list marker, or, without
\* markers, one for each non-blank line, and 50 tasks at most either way
C17_DefaultTasksCapped ==
  (fDone /\ ~fThrew /\ NoRuleMatches(fText)) =>
    LET lines == Len(NonBlankLines(SplitLines(fText)))
    IN /\ fIntent.action = "create_task"
       /\ Len(fIntent.tasks) <= 50
       /\ Len(fIntent.tasks) = IF MarkerCount(fText) > 0 THEN MarkerCount(fText)
                               ELSE IF lines < 50 THEN lines ELSE 50

(***************************************************************************)
(* Properties of the single-call path and of the chunk loop (Spec).        *)
(***************************************************************************)
\* the length of the systemPrompt of the function the request entered by
EntryPromptLen ==
  (IF entry = "parseLongInput" THEN ParseLongPromptLen ELSE ParseIntentPromptLen)
    + ModeContextLen(ctxMode)

\* the request is over, of parseIntent for a non-empty text or of
\* parseLongInput, and systemPrompt + userText is within the ceiling
WithinCeilingDone ==
  /\ pc = "done"
  /\ \/ entry \in ParseEntries /\ NonBlank(userText)
     \/ entry = "parseLongInput"
  /\ PromptTokens(EntryPromptLen, StrLen(userText)) <= MAX_INPUT_TOKENS_PER_CALL

\* C18: a text within the ceiling with the preamble gets exactly one call, no
\* split and no fusion, and the caller gets what the call's content parses
\* to, or what it parses to once repaired, or the fallback classifier's
\* intent for the text when it does not parse even repaired
C18_SingleCallDirectResult ==
  WithinCeilingDone =>
    /\ Len(calls) = 1
    /\ chunks = <<>> /\ idx = 0
    /\ calls[1].kind = "ok"
         => /\ result.kind = "return"
            /\ \E i \in OracleIntents : result.intent = WithQuery(i, userText)
    /\ calls[1].kind = "repairable"
         => /\ result.kind = "return"
            /\ \E r \in OracleContents :
                 r.parse = "repairable" /\ result.intent = WithQuery(r.intent, userText)
    /\ calls[1].kind = "garbage"
         => result = Return(regexFallbackParser(userText))

\* the calls of a request that added an intent to allIntents
Yielding == {k \in CallIds : calls[k].yield # "none"}

\* the calls are made one after the other: only the last call may be pending,
\* and the calls are in the order of their chunks and, within a chunk, of
\* the first attempt and then the pieces
OneAtATimeInOrder ==
  /\ \A k \in CallIds : calls[k].outcome = "pending" => k = Len(calls)
  /\ \A k, m \in CallIds :
       k < m => \/ calls[k].chunk < calls[m].chunk
                \/ calls[k].chunk = calls[m].chunk /\ calls[k].piece < calls[m].piece
  /\ idx >= 1 => Len(allIntents) = Cardinality(Yielding)

\* an intent is added to allIntents at its end, by the step that ends the
\* one pending call
FusedInCallOrder ==
  allIntents' # allIntents =>
    /\ Len(allIntents') = Len(allIntents) + 1
    /\ SubSeq(allIntents', 1, Len(allIntents)) = allIntents
    /\ calls # <<>> /\ calls[Len(calls)].outcome = "pending"
    /\ Len(calls') = Len(calls)
    /\ calls'[Len(calls)].yield # "none"

FirstAttempts(c) == {k \in CallIds : calls[k].site = "chunk" /\ calls[k].chunk = c}
PieceCalls(c, j) ==
  {k \in CallIds : calls[k].site = "retry" /\ calls[k].chunk = c /\ calls[k].piece = j}

\* chunk c was re-split
Resplit(c) == \E k \in CallIds : calls[k].site = "retry" /\ calls[k].chunk = c

\* the first attempt of chunk c failed on the token budget
BudgetFailed(c) ==
  \E k \in FirstAttempts(c) : calls[k].outcome \in {"preflight", "oracle_budget"}

\* the pieces of the re-split of chunk c
Pieces(c) == splitTextIntoChunks(chunks[c], MAX_INPUT_TOKENS_PER_CALL \div 2)

\* the calls of a request: one call on the single-call paths; in the chunk
\* loop one first attempt for each chunk, and one call for each piece of the
\* chunks that were re-split, which are chunks whose first attempt failed on
\* the budget
CallsBounded ==
  /\ chunks = <<>> => Len(calls) <= 1
  /\ \A k \in CallIds :
       /\ calls[k].site \in {"chunk", "retry"} <=> chunks # <<>>
       /\ calls[k].site = "chunk" => calls[k].chunk \in 1..Len(chunks) /\ calls[k].piece = 0
       /\ calls[k].site = "retry" =>
            /\ calls[k].chunk \in 1..Len(chunks)
            /\ BudgetFailed(calls[k].chunk)
            /\ calls[k].piece \in 1..Len(Pieces(calls[k].chunk))
  /\ \A c \in 1..Len(chunks) :
       /\ Cardinality(FirstAttempts(c)) <= 1
       /\ \A j \in 1..Len(Pieces(c)) : Cardinality(PieceCalls(c, j)) <= 1
  /\ Merged =>
       \A c \in 1..Len(chunks) :
         /\ Cardinality(FirstAttempts(c)) = 1
         /\ Resplit(c) => \A j \in 1..Len(Pieces(c)) : Cardinality(PieceCalls(c, j)) = 1

\* what is left of a request: the start, the end, the chunks to go, the
\* stage of the chunk, the pieces to go, the stage of the piece
Remaining ==
  LET looping == pc \in {"chunk_send", "chunk_wait", "retry_send", "retry_wait"}
      retrying == pc \in {"retry_send", "retry_wait"}
  IN << IF pc = "idle" THEN 1 ELSE 0,
        IF pc = "done" THEN 0 ELSE 1,
        IF looping THEN Len(chunks) + 1 - idx ELSE 0,
        IF pc = "chunk_send" THEN 3 ELSE IF pc = "chunk_wait" THEN 2 ELSE IF retrying THEN 1 ELSE 0,
        IF retrying THEN Len(smallerChunks) + 1 - sidx ELSE 0,
        IF pc = "retry_send" THEN 1 ELSE 0 >>

\* a precedes b in the lexicographic order
LexLess(a, b) ==
  \E i \in 1..Len(a) : a[i] < b[i] /\ \A j \in 1..(i - 1) : a[j] = b[j]

\* a request that is not over can take a step, and what is left of it is
\* never negative
Progressing ==
  /\ pc # "done" => ENABLED Next
  /\ \A i \in 1..Len(Remaining) : Remaining[i] >= 0

SplitRemaining ==
  LET inLoop == run.pc \in {"sentence", "line", "char"}
      inLines == run.pc \in {"line", "char"}
      left == IF run.pc = "char" THEN StrLen(run.lines[run.l]) - run.i ELSE 0
  IN << IF run.pc = "start" THEN 1 ELSE 0,
        IF run.pc = "done" THEN 0 ELSE 1,
        IF inLoop THEN Len(run.sentences) + 1 - run.s ELSE 0,
        IF run.pc = "sentence" THEN 1 ELSE 0,
        IF inLines THEN Len(run.lines) + 1 - run.l ELSE 0,
        IF run.pc = "line" THEN 1 ELSE 0,
        IF left > 0 THEN left ELSE 0 >>

\* a run that is not over can take a step, what is left of it is never
\* negative, and a run that is over returned the chunks of the function
SplitProgressing ==
  /\ run.pc \notin {"idle", "done"} => ENABLED SplitRunNext
  /\ \A n \in 1..Len(SplitRemaining) : SplitRemaining[n] >= 0
  /\ run.pc = "done" => run.returned = splitTextIntoChunks(run.text, run.maxTokensPerChunk)

\* C21: for every text and every ceiling > 0 every step of
\* splitTextIntoChunks leaves less to do, so that the function returns; a
\* line that the sentences and the lines cannot bound is cut by characters
C21_SplitTerminates ==
  []SplitProgressing /\ [][LexLess(SplitRemaining', SplitRemaining)]_vars

\* a single run of 22500 letters, with no terminator and no line break, was
\* cut by characters into several chunks and the function returned
C21_Witness ==
  /\ run.pc = "done" /\ run.text = TextMid
  /\ run.i >= StrLen(run.text) /\ Len(run.returned) >= 2

\* C22: a text whose estimate is within the ceiling is returned as the one
\* chunk, unchanged
C22_ShortTextReturnedWhole ==
  sDone /\ estimateTokens(sText) <= sCeiling => sChunks = <<sText>>

\* a text within the ceiling that begins or ends with whitespace was returned
\* as it is
C22_Witness ==
  /\ sDone /\ estimateTokens(sText) <= sCeiling
  /\ sText # <<>> /\ Trim(sText) # sText
  /\ sChunks = <<sText>>

\* C30: a text that holds a character other than whitespace is split into
\* chunks none of which is empty or whitespace only
C30_NoBlankChunk ==
  sDone /\ NonBlank(sText) => \A k \in 1..Len(sChunks) : NonBlank(sChunks[k])

\* the result of lines 476-478
EmptyInputResult == Return([EmptyIntent EXCEPT !.action = "error", !.message = MsgEmptyInput])

\* C23: parseIntent entered with a text that is empty or whitespace only is
\* over at once with the empty-input result: no call, no chunk, no retry, and
\* nothing more to do
C23_EmptyInputNoCall ==
  (entry \in {"parseIntent", "parseIntentWithRetry"} /\ ~NonBlank(userText))
    => /\ pc = "done" /\ result = EmptyInputResult
       /\ calls = <<>> /\ chunks = <<>> /\ idx = 0 /\ smallerChunks = <<>> /\ sidx = 0
       /\ ~ENABLED Next

\* parseIntent entered with two lines of spaces, a text over the ceiling,
\* returned the empty-input result
C23_Witness ==
  /\ entry = "parseIntent" /\ userText = TextWhitespace
  /\ pc = "done" /\ result = EmptyInputResult /\ calls = <<>>

\* k is n / 4 rounded up: the least integer that is n / 4 at least
IsQuarterRoundedUp(k, n) == 4 * k >= n /\ 4 * (k - 1) < n

\* the estimate of a value that was estimated is the fourth of the length
\* rounded up for a string, 0 for any other value, and never negative
EstimateIsCeiling ==
  eCalls >= 1 =>
    /\ eInput.typeof = "string" => IsQuarterRoundedUp(eTokens, StrLen(eInput.text))
    /\ eInput.typeof = "string" /\ eInput.text = <<>> => eTokens = 0
    /\ eInput.typeof # "string" => eTokens = 0
    /\ eTokens >= 0

\* C24: estimateTokens(t) is ceil(length(t) / 4) for a string, 0 for the
\* empty string and for a value that is not a string, never negative, and
\* the same when the value is estimated again
C24_EstimateIsCeilOfQuarter ==
  []EstimateIsCeiling /\ [][eCalls >= 1 => eTokens' = eTokens]_vars

\* a string whose length is not a multiple of four was estimated twice, and
\* the estimate is the fourth of the length rounded up, not down
C24_Witness ==
  /\ eCalls = 2 /\ eInput.typeof = "string"
  /\ StrLen(eInput.text) = 9 /\ eTokens = 3

\* the tasks of the create_task actions among the first k of the queue
RECURSIVE TasksOf(_, _)
TasksOf(queue, k) ==
  IF k = 0 \/ queue = <<>> THEN <<>>
  ELSE (IF Head(queue).action = "create_task" THEN <<Head(queue).task>> ELSE <<>>)
       \o TasksOf(Tail(queue), k - 1)

\* a request that found n > 0 pending actions took min(10, n) of them from
\* the front, added the task of each create_task action among them, and
\* reported what is left
BatchTaken ==
  LET n == Len(qPending)
      k == IF n < 10 THEN n ELSE 10
  IN (n > 0 /\ qReply'.status = 200) =>
       /\ qPending' = SubSeq(qPending, k + 1, n)
       /\ qTasks' = qTasks \o TasksOf(qPending, k)
       /\ qReply'.processed = Len(TasksOf(qPending, k))
       /\ qReply'.remaining = n - k

\* C25: each request to the process-queue endpoint for a user with n pending
\* actions removes the first min(10, n) of them in order, creates the task
\* of each create_task action removed and reports n - min(10, n) remaining
C25_BatchOfTenTaken == [][BatchTaken]_vars

\* C26: the action of the intent returned for a text of several chunks is
\* the highest-ranked action among the chunks' intents, whichever chunk it
\* came from and however the first chunk was classified
C26_HighestRankAmongChunks ==
  (Merged /\ Len(allIntents) >= 2 /\ result.kind = "return"
     /\ \A k \in 1..Len(allIntents) : allIntents[k].action \in ActionWhitelist)
    => /\ result.intent.action \in ActionWhitelist
       /\ \A k \in 1..Len(allIntents) :
            RankOf(result.intent.action) <= RankOf(allIntents[k].action)

\* C27: a chunk is re-split and retried exactly when its first attempt failed
\* on the budget, and a transport failure of parseIntent's single call is
\* not reported as a failure of the budget, whatever its message
C27_RecoveryByFailureKind ==
  /\ Merged => \A c \in 1..Len(chunks) : Resplit(c) <=> BudgetFailed(c)
  /\ (ParseDone /\ Len(calls) = 1 /\ calls[1].site = "single"
        /\ calls[1].outcome = "oracle_transport")
       => result.intent.message \notin {MsgTokenLimit, MsgLongInput}

\* the opener a closer closes
OpenerOf(c) == IF c = "}" THEN "{" ELSE "["

Mismatched == <<"mismatched">>

\* The openers still open, innermost last, after the runs of s from the k-th
\* on, open being those open before; Mismatched when a closer does not close
\* the innermost opener, or when the outermost opener is closed before the
\* end.  The texts hold no brace or bracket inside a string.
RECURSIVE StillOpen(_, _, _)
StillOpen(s, k, open) ==
  IF k > Len(s) THEN open
  ELSE IF k > 1 /\ open = <<>> THEN Mismatched
  ELSE LET c == s[k][1]
           n == s[k][2]
       IN IF c \in {"{", "["} THEN StillOpen(s, k + 1, open \o [j \in 1..n |-> c])
          ELSE IF c \in {"}", "]"}
          THEN IF /\ Len(open) >= n
                  /\ \A j \in (Len(open) - n + 1)..Len(open) : open[j] = OpenerOf(c)
               THEN StillOpen(s, k + 1, SubSeq(open, 1, Len(open) - n))
               ELSE Mismatched
          ELSE StillOpen(s, k + 1, open)

\* s is one object cut before its end: it begins with a brace, its closers
\* close the innermost openers, and an opener is still open
IsTruncatedObject(s) ==
  /\ s # <<>> /\ s[1][1] = "{"
  /\ StillOpen(s, 1, <<>>) \notin {Mismatched, <<>>}

\* the braces and brackets of s are properly nested and all closed
ProperlyNested(s) == StillOpen(s, 1, <<>>) = <<>>

\* C28: the repair of one object cut mid-structure, inside an object of an
\* array too, has its braces and brackets properly nested
C28_RepairProperlyNested ==
  jDone /\ IsTruncatedObject(jText) => ProperlyNested(jRepaired)

\* C29: the first attempt for every chunk of a request passes the pre-flight
\* check: the system prompt, the annotation and the chunk are estimated
\* within MAX_INPUT_TOKENS_PER_CALL together
C29_ChunkCallsPassPreflight ==
  \A k \in CallIds :
    calls[k].site = "chunk"
      => calls[k].tokens <= MAX_INPUT_TOKENS_PER_CALL /\ calls[k].outcome # "preflight"
====
